---- MODULE Spec2Model ----
(***************************************************************************)
(* SolVault: the verification engine (cmd/solvault/cmd/verify.go), the     *)
(* backup store (internal/storage/filesystem.go), the metadata fetcher     *)
(* (internal/solana/config.go) and the media downloader, modelled as state *)
(* machines over an abstract file system.                                  *)
(*                                                                         *)
(* The specifications of the module:                                       *)
(*   SpecVerify  - one NFT directory, performVerification and the changes  *)
(*                 the outside world can make to the directory;            *)
(*   SpecStore   - the FileStorage backend: SaveNFT, GetNFT, ListNFTs,     *)
(*                 DeleteNFT and corruption of a stored aggregate;         *)
(*   SpecFetch   - fetchOffChainMetadata on a response, and the backup of  *)
(*                 the record it yields;                                   *)
(*   SpecMedia   - MediaDownloader.DownloadMedia and SetMaxFileSize;       *)
(*   SpecAcquire - Fetcher.DownloadMediaFiles over the URLs of a record;   *)
(*   SpecDecode  - Fetcher.parseMetadataURI on the data of an account;     *)
(*   SpecMint    - FetchNFTInfo and FetchNFTInfoDemo on a mint account;    *)
(*   SpecConcurrent - two SaveNFT calls whose file system calls interleave;*)
(*   SpecNaming  - the destination names of the downloads of one run;      *)
(*   SpecBackup  - a backup with media followed by performVerification;    *)
(*   SpecReverify - runs of performVerification with the image or the      *)
(*                 metadata rewritten in between;                          *)
(*   SpecListTokens - the list-tokens command over the token accounts;     *)
(*   SpecList    - the verify and the list command on one NFT directory.   *)
(***************************************************************************)
EXTENDS Integers, Sequences, FiniteSets, TLC

(***************************************************************************)
(* Bounds of the model.                                                    *)
(***************************************************************************)
\* distinct byte contents a media or metadata file can have
NumContents == 2

\* entries of the NFT directory that can be unreadable at the same time
MaxFaults == 2

\* consecutive performVerification calls the history keeps
KeepCalls == 2

\* SaveNFT calls in a run (each advances the clock by one tick)
MaxSaves == 2

Contents == 1..NumContents

(***************************************************************************)
(* The NFT directory of the verification engine.                           *)
(***************************************************************************)
\* the empty Go string; every string and byte string of the model is a sequence
EmptyString == <<>>

\* a file that does not exist, and a file holding the given bytes
NoFile == [exists |-> FALSE, bytes |-> EmptyString]

FileWith(bytes) == [exists |-> TRUE, bytes |-> bytes]

\* the byte strings a media or metadata file can hold
FileBytes == {<<c>> : c \in Contents}

\* the media files an NFT directory may hold
MediaNames == {"image.png", "image.jpg", "art.gif"}

DataNames == MediaNames \cup {"metadata.json"}

DirNames == DataNames \cup {"hash.txt"}

\* the name standing for the directory itself in the set of unreadable entries
DirSelf == "."

\* os.ReadDir returns the entries sorted by file name
ReadDirOrder == <<"art.gif", "hash.txt", "image.jpg", "image.png", "metadata.json">>

\* filepath.Ext of the names above
Ext(name) ==
    CASE name = "art.gif" -> ".gif"
      [] name = "hash.txt" -> ".txt"
      [] name = "image.jpg" -> ".jpg"
      [] name = "image.png" -> ".png"
      [] name = "metadata.json" -> ".json"
      [] OTHER -> ""

\* the canonical names findImageFile tries first, in this order
imageExtensions == <<"image.png", "image.jpg", "image.jpeg", "image.gif", "image.svg", "image.webp">>

\* the extensions the fallback scan of findImageFile accepts
MediaExts == {".png", ".jpg", ".jpeg", ".gif", ".svg", ".webp"}

\* fmt.Sprintf("sha256:%x", sha256 of the bytes): SHA-256 is taken to be
\* collision free, so the digest text is an injective image of the bytes
Sha256Text(bytes) == <<"sha256:", bytes>>

VARIABLES
    files,        \* DirNames -> file ([exists, bytes]) of the NFT directory
    unreadable,   \* entries that exist but whose open/read fails
    writable,     \* whether os.WriteFile of hash.txt succeeds
    calls         \* the performVerification calls made since the directory last
                  \* changed, oldest first: [pre, force, result]

verifyVars == <<files, unreadable, writable, calls>>

VARIABLES
    disk,         \* the tree under FileStorage.baseDir: path -> node
    now,          \* time.Now(), in ticks
    saved,        \* (owner, mint) -> the record of the last successful SaveNFT
                  \* that no DeleteNFT has removed since (history)
    ret           \* the last storage operation: its arguments and what it returned

storeVars == <<disk, now, saved, ret>>

VARIABLES
    fetched       \* the last metadata fetch and backup: the response body, what
                  \* fetchOffChainMetadata returned and the metadata.json written

fetchVars == <<fetched>>

VARIABLES
    mediaDir,     \* the media directory: file name -> file ([exists, bytes])
    maxFileSize,  \* MediaDownloader.maxFileSize
    download,     \* the last DownloadMedia call: its URL, the Content-Length
                  \* of the response and what it returned
    acquired,     \* the last DownloadMediaFiles call: the record, the URLs
                  \* attempted in order and what it returned
    wallClock     \* time.Now(), in ticks since the start of the run

mediaVars == <<mediaDir, maxFileSize, download, acquired, wallClock>>

VARIABLES
    account,      \* the data of the metadata account handed to parseMetadataURI
    decoded       \* what parseMetadataURI returned for it

decodeVars == <<account, decoded>>

VARIABLES
    mintAccount,  \* the mint account the RPC node returns: how it was built, and
                  \* its data
    fetchedInfo   \* the last FetchNFTInfo or FetchNFTInfoDemo call: what it returned

mintVars == <<mintAccount, fetchedInfo>>

VARIABLES
    tree,         \* the tree under baseDir that concurrent SaveNFT calls share
    callers,      \* caller -> its SaveNFT call: the record, the step it is at,
                  \* the time it read and the error it returned
    lastWriter,   \* file path -> the caller whose write came last (history)
    clock         \* time.Now(), in ticks

concurrentVars == <<tree, callers, lastWriter, clock>>

VARIABLES
    backedUp,     \* the last backup of a record with its media: the record
                  \* and the tree under baseDir it left
    verdict       \* the result of performVerification on the directory of
                  \* that record

backupVars == <<backedUp, verdict>>

VARIABLES
    listing       \* the run of the list-tokens command: its flag, the token
                  \* accounts of the wallet, the position of its loop, what
                  \* it printed and how it ended

listVars == <<listing>>

VARIABLES
    proofFile,    \* proof.json of the NFT directory
    lastRun,      \* the result of the last run of the verify command
    listedAs      \* what the list command last showed for the directory,
                  \* with the verify run that preceded it

proofVars == <<proofFile, lastRun, listedAs>>

vars == <<verifyVars, storeVars, fetchVars, mediaVars, decodeVars, mintVars, concurrentVars, backupVars, listVars, proofVars>>

\* the variables the steps of each part leave alone
notVerifyVars == <<storeVars, fetchVars, mediaVars, decodeVars, mintVars, concurrentVars, backupVars, listVars, proofVars>>

notStoreVars == <<verifyVars, fetchVars, mediaVars, decodeVars, mintVars, concurrentVars, backupVars, listVars, proofVars>>

notFetchVars == <<verifyVars, storeVars, mediaVars, decodeVars, mintVars, concurrentVars, backupVars, listVars, proofVars>>

notMediaVars == <<verifyVars, storeVars, fetchVars, decodeVars, mintVars, concurrentVars, backupVars, listVars, proofVars>>

notDecodeVars == <<verifyVars, storeVars, fetchVars, mediaVars, mintVars, concurrentVars, backupVars, listVars, proofVars>>

notMintVars == <<verifyVars, storeVars, fetchVars, mediaVars, decodeVars, concurrentVars, backupVars, listVars, proofVars>>

notConcurrentVars == <<verifyVars, storeVars, fetchVars, mediaVars, decodeVars, mintVars, backupVars, listVars, proofVars>>

notBackupVars == <<verifyVars, storeVars, fetchVars, mediaVars, decodeVars, mintVars, concurrentVars, listVars, proofVars>>

notListVars == <<verifyVars, storeVars, fetchVars, mediaVars, decodeVars, mintVars, concurrentVars, backupVars, proofVars>>

notProofVars == <<verifyVars, storeVars, fetchVars, mediaVars, decodeVars, mintVars, concurrentVars, backupVars, listVars>>

\* the variables the verify command leaves alone
notVerifyProofVars == <<storeVars, fetchVars, mediaVars, decodeVars, mintVars, concurrentVars, backupVars, listVars>>

\* fileExists: os.Stat succeeds
fileExists(fs, name) == name \in DOMAIN fs /\ fs[name].exists

\* the first index of seq satisfying P, 0 when there is none
FirstIndex(seq, P(_)) ==
    IF \E i \in 1..Len(seq) : P(seq[i])
    THEN CHOOSE i \in 1..Len(seq) : P(seq[i]) /\ \A j \in 1..(i - 1) : ~P(seq[j])
    ELSE 0

\* findImageFile: the canonical names in order, then the first directory entry
\* with a media extension; EmptyString when none is found or ReadDir fails
findImageFile(fs, unread) ==
    LET canon == FirstIndex(imageExtensions, LAMBDA n : fileExists(fs, n))
        scan == FirstIndex(ReadDirOrder,
                    LAMBDA n : fileExists(fs, n) /\ Ext(n) \in MediaExts)
    IN  IF canon # 0 THEN imageExtensions[canon]
        ELSE IF DirSelf \in unread THEN ""
        ELSE IF scan # 0 THEN ReadDirOrder[scan]
        ELSE ""

\* computeFileHash: [err, hash]; os.Open or io.Copy fails on an unreadable file
computeFileHash(fs, unread, name) ==
    IF name \in unread \/ ~fileExists(fs, name)
    THEN [err |-> TRUE, hash |-> EmptyString]
    ELSE [err |-> FALSE, hash |-> Sha256Text(fs[name].bytes)]

\* os.ReadFile: [err, bytes]
ReadFile(fs, unread, name) ==
    IF name \in unread \/ ~fileExists(fs, name)
    THEN [err |-> TRUE, bytes |-> EmptyString]
    ELSE [err |-> FALSE, bytes |-> fs[name].bytes]

\* "Determine overall status": a mutant that lets a mismatch outrank an error
DetermineStatusMismatchFirst(errors, HashMatch, StoredHash) ==
    IF ~(HashMatch \/ StoredHash = EmptyString) THEN "tampered"
    ELSE IF Len(errors) > 0 THEN "error"
    ELSE "authentic"

\* "Determine overall status" of performVerification
DetermineStatus(errors, HashMatch, StoredHash) ==
    IF Len(errors) > 0 THEN "error"
    ELSE IF HashMatch \/ StoredHash = EmptyString THEN "authentic"
    ELSE "tampered"

\* "Store new hash": a mutant that forgets the force-recompute flag
ShouldStoreHashNoForce(StoredHash, ImageHash, forceRecompute) ==
    StoredHash = EmptyString /\ ImageHash # EmptyString

\* "Store new hash": a mutant that stores every digest it computes
ShouldStoreHashAlways(StoredHash, ImageHash, forceRecompute) ==
    ImageHash # EmptyString

\* "Store new hash if none exists or force recompute", when a digest was computed
ShouldStoreHash(StoredHash, ImageHash, forceRecompute) ==
    (StoredHash = EmptyString \/ forceRecompute) /\ ImageHash # EmptyString

\* the bytes written to hash.txt: a mutant that ends the line
HashFileBytesNewline(ImageHash) == Append(ImageHash, "\n")

\* the bytes written to hash.txt: []byte(result.ImageHash)
HashFileBytes(ImageHash) == ImageHash

\* performVerification (forceRecompute is the package-level flag the verify
\* command sets): the VerificationResult it returns and the directory it leaves
performVerification(fs, unread, canWrite, forceRecompute) ==
    LET HasMetadata == fileExists(fs, "metadata.json")
        imageFile == findImageFile(fs, unread)
        HasImage == imageFile # ""
        image == computeFileHash(fs, unread, imageFile)
        ImageHash == image.hash
        errs1 == IF image.err THEN <<"Failed to compute image hash">> ELSE <<>>
        meta == IF HasMetadata
                THEN computeFileHash(fs, unread, "metadata.json")
                ELSE [err |-> FALSE, hash |-> EmptyString]
        MetadataHash == meta.hash
        errs2 == IF meta.err
                 THEN Append(errs1, "Failed to compute metadata hash")
                 ELSE errs1
        stored == ReadFile(fs, unread, "hash.txt")
        wasRead == fileExists(fs, "hash.txt") /\ ~stored.err
        StoredHash == IF wasRead THEN stored.bytes ELSE EmptyString
        HashMatch == IF wasRead THEN ImageHash = StoredHash ELSE FALSE
        Status == DetermineStatus(errs2, HashMatch, StoredHash)
        store == ShouldStoreHash(StoredHash, ImageHash, forceRecompute)
        wrote == store /\ canWrite
        errs3 == IF store /\ ~canWrite THEN Append(errs2, "Failed to save hash") ELSE errs2
    IN  IF ~HasImage
        THEN [result |-> [Status |-> "incomplete", ImageHash |-> EmptyString,
                          StoredHash |-> EmptyString, MetadataHash |-> EmptyString,
                          HashMatch |-> FALSE, HasImage |-> FALSE,
                          HasMetadata |-> HasMetadata,
                          Errors |-> <<"No image file found">>],
              files |-> fs]
        ELSE [result |-> [Status |-> Status, ImageHash |-> ImageHash,
                          StoredHash |-> IF wrote THEN ImageHash ELSE StoredHash,
                          MetadataHash |-> MetadataHash,
                          HashMatch |-> IF wrote THEN TRUE ELSE HashMatch,
                          HasImage |-> TRUE, HasMetadata |-> HasMetadata,
                          Errors |-> errs3],
              files |-> IF wrote
                        THEN [fs EXCEPT !["hash.txt"] = FileWith(HashFileBytes(ImageHash))]
                        ELSE fs]

\* the entries the outside world can make unreadable
FaultNames == DirNames \cup {DirSelf}

InitDirectory ==
    /\ files = [n \in DirNames |-> NoFile]
    /\ unreadable = {}
    /\ writable = TRUE
    /\ calls = <<>>

\* the history with one more call, cut to the last KeepCalls
Remember(cs, c) ==
    LET all == Append(cs, c)
    IN  IF Len(all) > KeepCalls THEN SubSeq(all, Len(all) - KeepCalls + 1, Len(all)) ELSE all

\* runVerify's call of performVerification, with or without --force-recompute
Verify(force) ==
    LET out == performVerification(files, unreadable, writable, force)
    IN  /\ files' = out.files
        /\ calls' = Remember(calls, [pre |-> [files |-> files, unreadable |-> unreadable,
                                             writable |-> writable],
                                    force |-> force, result |-> out.result])
        /\ UNCHANGED <<unreadable, writable>>
        /\ UNCHANGED notVerifyVars

\* the outside world writes (creates or alters) a media or metadata file
WriteFile(name, bytes) ==
    /\ files[name] # FileWith(bytes)
    /\ files' = [files EXCEPT ![name] = FileWith(bytes)]
    /\ calls' = <<>>
    /\ UNCHANGED <<unreadable, writable>>
    /\ UNCHANGED notVerifyVars

\* the outside world removes a file of the directory
RemoveFile(name) ==
    /\ files[name].exists
    /\ files' = [files EXCEPT ![name] = NoFile]
    /\ unreadable' = unreadable \ {name}
    /\ calls' = <<>>
    /\ UNCHANGED writable
    /\ UNCHANGED notVerifyVars

\* the outside world empties hash.txt
TruncateHashFile ==
    /\ files["hash.txt"].exists
    /\ files["hash.txt"].bytes # EmptyString
    /\ files' = [files EXCEPT !["hash.txt"] = FileWith(EmptyString)]
    /\ calls' = <<>>
    /\ UNCHANGED <<unreadable, writable>>
    /\ UNCHANGED notVerifyVars

\* an entry becomes unreadable (permissions, a failing disk): open or read fails
BecomeUnreadable(name) ==
    /\ name \notin unreadable
    /\ IF name = DirSelf THEN TRUE ELSE fileExists(files, name)
    /\ Cardinality(unreadable) < MaxFaults
    /\ unreadable' = unreadable \cup {name}
    /\ calls' = <<>>
    /\ UNCHANGED <<files, writable>>
    /\ UNCHANGED notVerifyVars

BecomeReadable(name) ==
    /\ name \in unreadable
    /\ unreadable' = unreadable \ {name}
    /\ calls' = <<>>
    /\ UNCHANGED <<files, writable>>
    /\ UNCHANGED notVerifyVars

\* the directory becomes read-only, or writable again
SetWritable(b) ==
    /\ writable # b
    /\ writable' = b
    /\ calls' = <<>>
    /\ UNCHANGED <<files, unreadable>>
    /\ UNCHANGED notVerifyVars

NextVerify ==
    \/ \E force \in BOOLEAN : Verify(force)
    \/ \E name \in DataNames, bytes \in FileBytes : WriteFile(name, bytes)
    \/ \E name \in DirNames : RemoveFile(name)
    \/ TruncateHashFile
    \/ \E name \in FaultNames : BecomeUnreadable(name)
    \/ \E name \in FaultNames : BecomeReadable(name)
    \/ \E b \in BOOLEAN : SetWritable(b)

\* the files of the directory that change between two runs of the verify
\* command on it
ReverifyNames == {"image.png", "metadata.json"}

\* the outside world writes a file between two runs of the verify command
\* (the history of runs goes on)
ModifyFile(name, bytes) ==
    /\ files[name] # FileWith(bytes)
    /\ files' = [files EXCEPT ![name] = FileWith(bytes)]
    /\ UNCHANGED <<unreadable, writable, calls>>
    /\ UNCHANGED notVerifyVars

NextReverify ==
    \/ \E force \in BOOLEAN : Verify(force)
    \/ \E name \in ReverifyNames, bytes \in FileBytes : ModifyFile(name, bytes)



(***************************************************************************)
(* The backup store (internal/storage).                                    *)
(***************************************************************************)
\* wallet and mint public keys
Owners == {"W1", "W2"}

Mints == {"M1", "M2"}

\* the mint keys in the lexical order of their base58 text, the order in
\* which filepath.Walk visits the per-mint directories
SortedMints == <<"M1", "M2">>

\* solanago.PublicKey.String(): the base58 text of a key, and its inverse
Base58(key) == <<"base58", key>>

PublicKeyFromBase58(text) == text[2]

\* Properties: its files (their URIs) and creators (address, verified).
\* File.Type, Creator.Share, Category, MaxSupply and Uses are handled like
\* the fields kept here and are left out.
NoProperties == [Files |-> <<>>, Creators |-> <<>>]

\* *NFTMetadata: nil, or the off-chain metadata. Description is handled like
\* Symbol, ExternalURL like AnimationURL, Collection like Properties;
\* Attributes and SellerFeeBasisPoints are omitempty and are left out.
NilMetadata ==
    [nil |-> TRUE, Name |-> "", Symbol |-> "", Image |-> "", AnimationURL |-> "",
     Properties |-> NoProperties]

\* the zero NFTMetadata value
ZeroMetadata == [NilMetadata EXCEPT !.nil = FALSE]

MetadataNamed(name) == [ZeroMetadata EXCEPT !.Name = name]

MetadataNames == {"Test NFT"}

\* []*MediaFile: the downloaded media files of a record
MediaLists == {<<>>, <<[Filename |-> "y.png", Checksum |-> "c1"]>>}

Pairs == {<<"W1", "M1">>, <<"W1", "M2">>, <<"W2", "M1">>}

\* fetcher.NFTInfo. TokenAccount, MetadataURI, OnChainData, FetchedAt, Supply
\* and Decimals are marshalled like the fields kept here and read by no
\* operation of the store; they are left out.
NFTInfos ==
    {i \in [MintAddress : Mints, Owner : Owners,
             Metadata : {NilMetadata} \cup {MetadataNamed(n) : n \in MetadataNames},
             MediaFiles : MediaLists] : <<i.Owner, i.MintAddress>> \in Pairs}

\* JSON documents, as encoding/json writes and reads them
JNull == [t |-> "null", v |-> <<>>]

JString(text) == [t |-> "string", v |-> text]

JNumber(n) == [t |-> "number", v |-> n]

JBool(b) == [t |-> "bool", v |-> b]

JArray(items) == [t |-> "array", v |-> items]

JObject(members) == [t |-> "object", v |-> members]

\* bytes that are no JSON document (a truncated or overwritten file)
Garbage == [t |-> "invalid", v |-> <<>>]

\* json.Marshal of Properties: files and creators are omitempty
MarshalProperties(p) ==
    LET fileList == JArray([i \in 1..Len(p.Files) |->
                    JObject([k \in {"uri"} |-> JString(p.Files[i].URI)])])
        creators == JArray([i \in 1..Len(p.Creators) |->
                    JObject([k \in {"address", "verified"} |->
                        IF k = "address" THEN JString(p.Creators[i].Address)
                        ELSE JBool(p.Creators[i].Verified)])])
    IN  JObject([k \in (IF Len(p.Files) > 0 THEN {"files"} ELSE {})
                      \cup (IF Len(p.Creators) > 0 THEN {"creators"} ELSE {}) |->
                    IF k = "files" THEN fileList ELSE creators])

\* json.Marshal of *NFTMetadata: name, symbol and image are always written,
\* animation_url is omitempty, properties is a struct and is always written
MarshalMetadata(md) ==
    IF md.nil THEN JNull
    ELSE JObject([k \in {"name", "symbol", "image", "properties"}
                        \cup (IF md.AnimationURL # "" THEN {"animation_url"} ELSE {}) |->
            CASE k = "name" -> JString(md.Name)
              [] k = "symbol" -> JString(md.Symbol)
              [] k = "image" -> JString(md.Image)
              [] k = "animation_url" -> JString(md.AnimationURL)
              [] OTHER -> MarshalProperties(md.Properties)])

\* json.Marshal of []*MediaFile
MarshalMediaFiles(list) ==
    JArray([i \in 1..Len(list) |->
        JObject([k \in {"filename", "checksum"} |->
            IF k = "filename" THEN JString(list[i].Filename)
            ELSE JString(list[i].Checksum)])])

\* json.Marshal of *NFTInfo: media_files is omitempty
MarshalNFTInfo(info) ==
    LET always == [k \in {"mint_address", "owner", "metadata"} |->
                    CASE k = "mint_address" -> JString(Base58(info.MintAddress))
                      [] k = "owner" -> JString(Base58(info.Owner))
                      [] OTHER -> MarshalMetadata(info.Metadata)]
    IN  JObject(IF Len(info.MediaFiles) > 0
                THEN always @@ ("media_files" :> MarshalMediaFiles(info.MediaFiles))
                ELSE always)

\* json.Marshal of *StoredNFT
MarshalStoredNFT(st) ==
    JObject([k \in {"nft_info", "stored_at", "updated_at", "version", "checksum",
                    "backup_path", "verified", "last_check"} |->
        CASE k = "nft_info" -> MarshalNFTInfo(st.NFTInfo)
          [] k = "stored_at" -> JNumber(st.StoredAt)
          [] k = "updated_at" -> JNumber(st.UpdatedAt)
          [] k = "version" -> JNumber(st.Version)
          [] k = "checksum" -> JString(st.Checksum)
          [] k = "backup_path" -> JString(st.BackupPath)
          [] k = "verified" -> JBool(st.Verified)
          [] OTHER -> JNumber(st.LastCheck)])

\* the member of a JSON object, null when the object has no such key (a
\* missing key and a null both leave the Go field as it is)
Member(obj, key) == IF key \in DOMAIN obj.v THEN obj.v[key] ELSE JNull

\* json.Unmarshal of a value into a string, bool, struct or slice field:
\* [err, ...]; a value of another type is an UnmarshalTypeError and leaves the
\* field at its zero value
StrictString(j) ==
    [err |-> j.t \notin {"string", "null"}, v |-> IF j.t = "string" THEN j.v ELSE ""]

StrictBool(j) ==
    [err |-> j.t \notin {"bool", "null"}, v |-> IF j.t = "bool" THEN j.v ELSE FALSE]

StrictFile(j) ==
    IF j.t = "object"
    THEN LET uri == StrictString(Member(j, "uri"))
         IN  [err |-> uri.err, v |-> [URI |-> uri.v]]
    ELSE [err |-> j.t # "null", v |-> [URI |-> ""]]

StrictCreator(j) ==
    IF j.t = "object"
    THEN LET address == StrictString(Member(j, "address"))
             verified == StrictBool(Member(j, "verified"))
         IN  [err |-> address.err \/ verified.err,
              v |-> [Address |-> address.v, Verified |-> verified.v]]
    ELSE [err |-> j.t # "null", v |-> [Address |-> "", Verified |-> FALSE]]

StrictList(j, Elem(_)) ==
    IF j.t = "array"
    THEN [err |-> \E i \in 1..Len(j.v) : Elem(j.v[i]).err,
          v |-> [i \in 1..Len(j.v) |-> Elem(j.v[i]).v]]
    ELSE [err |-> j.t # "null", v |-> <<>>]

StrictProperties(j) ==
    IF j.t = "object"
    THEN LET fileList == StrictList(Member(j, "files"), StrictFile)
             creators == StrictList(Member(j, "creators"), StrictCreator)
         IN  [err |-> fileList.err \/ creators.err,
              v |-> [Files |-> fileList.v, Creators |-> creators.v]]
    ELSE [err |-> j.t # "null", v |-> NoProperties]

\* json.Unmarshal(body, &metadata) into a zero NFTMetadata: [err, value].
\* Keys outside the struct are ignored; bytes that are no JSON and a top-level
\* value that is neither an object nor null are errors.
UnmarshalMetadataStrict(doc) ==
    IF doc.t = "null" THEN [err |-> FALSE, value |-> ZeroMetadata]
    ELSE IF doc.t # "object" THEN [err |-> TRUE, value |-> ZeroMetadata]
    ELSE LET name == StrictString(Member(doc, "name"))
             symbol == StrictString(Member(doc, "symbol"))
             image == StrictString(Member(doc, "image"))
             animation == StrictString(Member(doc, "animation_url"))
             properties == StrictProperties(Member(doc, "properties"))
         IN  [err |-> name.err \/ symbol.err \/ image.err \/ animation.err
                        \/ properties.err,
              value |-> [nil |-> FALSE, Name |-> name.v, Symbol |-> symbol.v,
                         Image |-> image.v, AnimationURL |-> animation.v,
                         Properties |-> properties.v]]

\* json.Unmarshal into the *NFTMetadata field of NFTInfo
UnmarshalMetadata(doc) ==
    IF doc.t = "null" THEN NilMetadata ELSE UnmarshalMetadataStrict(doc).value

\* json.Unmarshal into []*MediaFile
UnmarshalMediaFiles(doc) ==
    [i \in 1..Len(doc.v) |->
        [Filename |-> doc.v[i].v["filename"].v, Checksum |-> doc.v[i].v["checksum"].v]]

\* json.Unmarshal into NFTInfo
UnmarshalNFTInfo(doc) ==
    [MintAddress |-> PublicKeyFromBase58(doc.v["mint_address"].v),
     Owner |-> PublicKeyFromBase58(doc.v["owner"].v),
     Metadata |-> UnmarshalMetadata(doc.v["metadata"]),
     MediaFiles |-> IF "media_files" \in DOMAIN doc.v
                    THEN UnmarshalMediaFiles(doc.v["media_files"])
                    ELSE <<>>]

\* json.Unmarshal into StoredNFT: [err, value]
UnmarshalStoredNFT(doc) ==
    IF doc.t # "object"
    THEN [err |-> TRUE, value |-> <<>>]
    ELSE [err |-> FALSE,
          value |-> <<[NFTInfo |-> UnmarshalNFTInfo(doc.v["nft_info"]),
                       StoredAt |-> doc.v["stored_at"].v,
                       UpdatedAt |-> doc.v["updated_at"].v,
                       Version |-> doc.v["version"].v,
                       Checksum |-> doc.v["checksum"].v,
                       BackupPath |-> doc.v["backup_path"].v,
                       Verified |-> doc.v["verified"].v,
                       LastCheck |-> doc.v["last_check"].v]>>]

\* the nodes of the tree: a directory, or a file with its bytes; a file that
\* is not accessible can be neither read nor written (permission denied)
DirNode == [kind |-> "dir", bytes |-> JNull, accessible |-> TRUE]

FileNode(bytes) == [kind |-> "file", bytes |-> bytes, accessible |-> TRUE]

IsPrefix(p, q) == Len(p) <= Len(q) /\ SubSeq(q, 1, Len(p)) = p

\* os.MkdirAll: the directory and every missing parent
MkdirAll(d, path) ==
    LET dirs == {SubSeq(path, 1, n) : n \in 0..Len(path)}
    IN  [q \in DOMAIN d \cup dirs |-> IF q \in DOMAIN d THEN d[q] ELSE DirNode]

\* os.WriteFile: a mutant that leaves an existing file as it is
WriteFileAtIfAbsent(d, path, bytes) ==
    [q \in DOMAIN d \cup {path} |-> IF q \in DOMAIN d THEN d[q] ELSE FileNode(bytes)]

\* os.WriteFile: creates the file or replaces its bytes
WriteFileAt(d, path, bytes) ==
    [q \in DOMAIN d \cup {path} |-> IF q = path THEN FileNode(bytes) ELSE d[q]]

\* os.RemoveAll: the path and everything below it
RemoveAll(d, path) == [q \in {r \in DOMAIN d : ~IsPrefix(path, r)} |-> d[q]]

\* buildNFTPath: a mutant that leaves the wallet out of the path
buildNFTPathFlat(walletAddr, mintAddr) ==
    <<"wallets", "nfts", Base58(mintAddr)>>

\* buildNFTPath, relative to baseDir
buildNFTPath(walletAddr, mintAddr) ==
    <<"wallets", Base58(walletAddr), "nfts", Base58(mintAddr)>>

\* calculateChecksum: the hex SHA-256 (taken to be collision free) of
\* json.Marshal(nftInfo)
calculateChecksum(nftInfo) == <<"sha256hex", MarshalNFTInfo(nftInfo)>>

\* the StoredNFT of SaveNFT: a mutant that hashes the whole aggregate,
\* storage metadata included
NewStoredNFTHashAll(nftInfo, time, nftDir) ==
    [NFTInfo |-> nftInfo, StoredAt |-> time, UpdatedAt |-> time, Version |-> 1,
     Checksum |-> <<"sha256hex", MarshalNFTInfo(nftInfo), time>>,
     BackupPath |-> nftDir, Verified |-> FALSE, LastCheck |-> 0]

\* the StoredNFT of SaveNFT: a mutant that leaves the checksum unset
NewStoredNFTNoChecksum(nftInfo, time, nftDir) ==
    [NFTInfo |-> nftInfo, StoredAt |-> time, UpdatedAt |-> time, Version |-> 1,
     Checksum |-> EmptyString,
     BackupPath |-> nftDir, Verified |-> FALSE, LastCheck |-> 0]

\* the StoredNFT SaveNFT builds and checksums
NewStoredNFT(nftInfo, time, nftDir) ==
    [NFTInfo |-> nftInfo, StoredAt |-> time, UpdatedAt |-> time, Version |-> 1,
     Checksum |-> calculateChecksum(nftInfo),
     BackupPath |-> nftDir, Verified |-> FALSE, LastCheck |-> 0]

\* saveJSON: [err, disk]; os.WriteFile fails on a file that is not accessible
saveJSON(d, filePath, doc) ==
    IF filePath \in DOMAIN d /\ ~d[filePath].accessible
    THEN [err |-> TRUE, disk |-> d]
    ELSE [err |-> FALSE, disk |-> WriteFileAt(d, filePath, doc)]

\* loadJSON: [err, notExist, value]
loadJSON(d, filePath) ==
    IF filePath \notin DOMAIN d
    THEN [err |-> TRUE, notExist |-> TRUE, value |-> <<>>]
    ELSE IF ~d[filePath].accessible \/ d[filePath].kind # "file"
    THEN [err |-> TRUE, notExist |-> FALSE, value |-> <<>>]
    ELSE LET u == UnmarshalStoredNFT(d[filePath].bytes)
         IN  [err |-> u.err, notExist |-> FALSE, value |-> u.value]

\* FileStorage.SaveNFT: [err, disk]
SaveNFTOp(d, time, nftInfo) ==
    LET nftDir == buildNFTPath(nftInfo.Owner, nftInfo.MintAddress)
        d1 == MkdirAll(d, nftDir)
        storedNFT == NewStoredNFT(nftInfo, time, nftDir)
        w1 == saveJSON(d1, Append(nftDir, "nft_data.json"), MarshalStoredNFT(storedNFT))
        w2 == IF ~nftInfo.Metadata.nil
              THEN saveJSON(w1.disk, Append(nftDir, "metadata.json"),
                            MarshalMetadata(nftInfo.Metadata))
              ELSE [err |-> FALSE, disk |-> w1.disk]
        w3 == IF Len(nftInfo.MediaFiles) > 0
              THEN saveJSON(MkdirAll(w2.disk, Append(nftDir, "media")),
                            Append(nftDir, "media_manifest.json"),
                            MarshalMediaFiles(nftInfo.MediaFiles))
              ELSE [err |-> FALSE, disk |-> w2.disk]
    IN  IF w1.err THEN [err |-> "failed to save NFT data", disk |-> w1.disk]
        ELSE IF w2.err THEN [err |-> "failed to save metadata", disk |-> w2.disk]
        ELSE IF w3.err THEN [err |-> "failed to save media manifest", disk |-> w3.disk]
        ELSE [err |-> "", disk |-> w3.disk]

\* FileStorage.GetNFT: [err, value]
GetNFTOp(d, walletAddr, mintAddr) ==
    LET l == loadJSON(d, Append(buildNFTPath(walletAddr, mintAddr), "nft_data.json"))
    IN  IF l.err
        THEN [err |-> IF l.notExist THEN "NFT not found" ELSE "failed to load NFT data",
              value |-> <<>>]
        ELSE [err |-> "", value |-> l.value]

\* the paths filepath.Walk visits under a wallet directory that are named
\* nft_data.json, in the order of the walk
WalkDataFiles(d, walletDir) ==
    SelectSeq([i \in 1..Len(SortedMints) |->
                    walletDir \o <<Base58(SortedMints[i]), "nft_data.json">>],
              LAMBDA path : path \in DOMAIN d)

\* the records of the aggregates at the given paths that load, in order
RECURSIVE LoadAll(_, _)
LoadAll(d, paths) ==
    IF paths = <<>> THEN <<>>
    ELSE LET l == loadJSON(d, Head(paths))
         IN  (IF l.err THEN <<>> ELSE l.value) \o LoadAll(d, Tail(paths))

\* FileStorage.ListNFTs: a mutant that gives up the whole listing when one
\* aggregate does not load
ListNFTsOpAbortOnBad(d, walletAddr) ==
    LET walletDir == <<"wallets", Base58(walletAddr), "nfts">>
        paths == IF walletDir \in DOMAIN d THEN WalkDataFiles(d, walletDir) ELSE <<>>
    IN  IF \E i \in 1..Len(paths) : loadJSON(d, paths[i]).err
        THEN [err |-> "failed to scan wallet directory", value |-> <<>>]
        ELSE [err |-> "", value |-> LoadAll(d, paths)]

\* FileStorage.ListNFTs: [err, value]
ListNFTsOp(d, walletAddr) ==
    LET walletDir == <<"wallets", Base58(walletAddr), "nfts">>
    IN  IF walletDir \notin DOMAIN d
        THEN [err |-> "", value |-> <<>>]
        ELSE [err |-> "", value |-> LoadAll(d, WalkDataFiles(d, walletDir))]

\* FileStorage.DeleteNFT: a mutant that removes the wallet's whole nfts
\* directory
DeleteNFTOpWholeWallet(d, walletAddr, mintAddr) ==
    LET nftDir == buildNFTPath(walletAddr, mintAddr)
    IN  IF nftDir \notin DOMAIN d
        THEN [err |-> "NFT not found", disk |-> d]
        ELSE [err |-> "", disk |-> RemoveAll(d, SubSeq(nftDir, 1, Len(nftDir) - 1))]

\* FileStorage.DeleteNFT: [err, disk]
DeleteNFTOp(d, walletAddr, mintAddr) ==
    LET nftDir == buildNFTPath(walletAddr, mintAddr)
    IN  IF nftDir \notin DOMAIN d
        THEN [err |-> "NFT not found", disk |-> d]
        ELSE [err |-> "", disk |-> RemoveAll(d, nftDir)]


\* NewFileStorage: the base directory exists and is empty
InitStore ==
    /\ disk = (<<>> :> DirNode)
    /\ now = 0
    /\ saved = [p \in Pairs |-> <<>>]
    /\ ret = [op |-> "NewFileStorage", owner |-> "", mint |-> "", err |-> "", value |-> <<>>]

SaveNFT(nftInfo) ==
    LET out == SaveNFTOp(disk, now, nftInfo)
        key == <<nftInfo.Owner, nftInfo.MintAddress>>
    IN  /\ now < MaxSaves
        /\ now' = now + 1
        /\ disk' = out.disk
        /\ saved' = IF out.err = "" THEN [saved EXCEPT ![key] = <<nftInfo>>] ELSE saved
        /\ ret' = [op |-> "SaveNFT", owner |-> nftInfo.Owner, mint |-> nftInfo.MintAddress,
                   err |-> out.err, value |-> <<>>]
        /\ UNCHANGED notStoreVars

GetNFT(walletAddr, mintAddr) ==
    LET out == GetNFTOp(disk, walletAddr, mintAddr)
    IN  /\ ret' = [op |-> "GetNFT", owner |-> walletAddr, mint |-> mintAddr,
                   err |-> out.err, value |-> out.value]
        /\ UNCHANGED <<disk, now, saved>>
        /\ UNCHANGED notStoreVars

ListNFTs(walletAddr) ==
    LET out == ListNFTsOp(disk, walletAddr)
    IN  /\ ret' = [op |-> "ListNFTs", owner |-> walletAddr, mint |-> "",
                   err |-> out.err, value |-> out.value]
        /\ UNCHANGED <<disk, now, saved>>
        /\ UNCHANGED notStoreVars

DeleteNFT(walletAddr, mintAddr) ==
    LET out == DeleteNFTOp(disk, walletAddr, mintAddr)
    IN  /\ disk' = out.disk
        /\ saved' = IF out.err = "" THEN [saved EXCEPT ![<<walletAddr, mintAddr>>] = <<>>]
                    ELSE saved
        /\ ret' = [op |-> "DeleteNFT", owner |-> walletAddr, mint |-> mintAddr,
                   err |-> out.err, value |-> <<>>]
        /\ UNCHANGED now
        /\ UNCHANGED notStoreVars

\* an aggregate file is damaged: its bytes stop being a JSON document
Corrupt(walletAddr, mintAddr) ==
    LET path == Append(buildNFTPath(walletAddr, mintAddr), "nft_data.json")
    IN  /\ path \in DOMAIN disk
        /\ disk[path].bytes # Garbage
        /\ disk' = [disk EXCEPT ![path].bytes = Garbage]
        /\ ret' = [op |-> "Corrupt", owner |-> "", mint |-> "",
                   err |-> "", value |-> <<>>]
        /\ UNCHANGED <<now, saved>>
        /\ UNCHANGED notStoreVars

\* an aggregate file loses its permissions: it can be neither read nor written
Lock(walletAddr, mintAddr) ==
    LET path == Append(buildNFTPath(walletAddr, mintAddr), "nft_data.json")
    IN  /\ path \in DOMAIN disk
        /\ disk[path].accessible
        /\ disk' = [disk EXCEPT ![path].accessible = FALSE]
        /\ ret' = [op |-> "Lock", owner |-> "", mint |-> "",
                   err |-> "", value |-> <<>>]
        /\ UNCHANGED <<now, saved>>
        /\ UNCHANGED notStoreVars

NextStore ==
    \/ \E nftInfo \in NFTInfos : SaveNFT(nftInfo)
    \/ \E p \in Pairs : GetNFT(p[1], p[2])
    \/ \E w \in Owners : ListNFTs(w)
    \/ \E p \in Pairs : DeleteNFT(p[1], p[2])
    \/ \E p \in Pairs : Corrupt(p[1], p[2])
    \/ \E p \in Pairs : Lock(p[1], p[2])

(***************************************************************************)
(* Fetching the off-chain metadata and backing it up (internal/fetcher).   *)
(***************************************************************************)
\* rawData[key].(string): the string under a key, "" when the key is missing
\* or its value is no string
FlexString(obj, key) ==
    IF key \in DOMAIN obj.v /\ obj.v[key].t = "string" THEN obj.v[key].v ELSE ""

\* the creator's verified flag of parseFlexibleMetadata: a bool, a number
\* (non-zero is true) or a string ("true" and "1" are true); anything else
\* leaves it false
FlexVerifiedTrueOnly(creatorMap) ==
    "verified" \in DOMAIN creatorMap.v /\ creatorMap.v["verified"].t = "bool"
        /\ creatorMap.v["verified"].v

FlexVerified(creatorMap) ==
    IF "verified" \notin DOMAIN creatorMap.v THEN FALSE
    ELSE LET verified == creatorMap.v["verified"]
         IN  CASE verified.t = "bool" -> verified.v
               [] verified.t = "number" -> verified.v # 0
               [] verified.t = "string" -> verified.v \in {"true", "1"}
               [] OTHER -> FALSE

\* the elements of rawData[key].([]interface{}) that are JSON objects
FlexObjects(obj, key) ==
    IF key \in DOMAIN obj.v /\ obj.v[key].t = "array"
    THEN SelectSeq(obj.v[key].v, LAMBDA e : e.t = "object")
    ELSE <<>>

FlexProperties(rawData) ==
    IF "properties" \in DOMAIN rawData.v /\ rawData.v["properties"].t = "object"
    THEN LET props == rawData.v["properties"]
             creators == FlexObjects(props, "creators")
             fileList == FlexObjects(props, "files")
         IN  [Files |-> [i \in 1..Len(fileList) |-> [URI |-> FlexString(fileList[i], "uri")]],
              Creators |-> [i \in 1..Len(creators) |->
                                [Address |-> FlexString(creators[i], "address"),
                                 Verified |-> FlexVerified(creators[i])]]]
    ELSE NoProperties

\* parseFlexibleMetadata, a mutant that fails when the name is no string
parseFlexibleMetadataNameRequired(body) ==
    IF body.t \notin {"object", "null"}
            \/ (body.t = "object" /\ "name" \in DOMAIN body.v /\ body.v["name"].t # "string")
    THEN [err |-> TRUE, value |-> ZeroMetadata]
    ELSE IF body.t = "null" THEN [err |-> FALSE, value |-> ZeroMetadata]
    ELSE [err |-> FALSE,
          value |-> [nil |-> FALSE,
                     Name |-> FlexString(body, "name"),
                     Symbol |-> FlexString(body, "symbol"),
                     Image |-> FlexString(body, "image"),
                     AnimationURL |-> FlexString(body, "animation_url"),
                     Properties |-> FlexProperties(body)]]

\* parseFlexibleMetadata: [err, value]. json.Unmarshal into a map fails on
\* bytes that are no JSON and on a top-level value that is neither an object
\* nor null; a null leaves the map nil.
parseFlexibleMetadata(body) ==
    IF body.t \notin {"object", "null"} THEN [err |-> TRUE, value |-> ZeroMetadata]
    ELSE IF body.t = "null" THEN [err |-> FALSE, value |-> ZeroMetadata]
    ELSE [err |-> FALSE,
          value |-> [nil |-> FALSE,
                     Name |-> FlexString(body, "name"),
                     Symbol |-> FlexString(body, "symbol"),
                     Image |-> FlexString(body, "image"),
                     AnimationURL |-> FlexString(body, "animation_url"),
                     Properties |-> FlexProperties(body)]]

\* http.StatusOK
StatusOK == 200

\* fetchOffChainMetadata on a response with the given status and body:
\* [err, strict, value]; strict tells whether the standard parsing succeeded
fetchOffChainMetadata(status, body) ==
    IF status # StatusOK
    THEN [err |-> "HTTP error fetching metadata", strict |-> FALSE, value |-> NilMetadata]
    ELSE LET standard == UnmarshalMetadataStrict(body)
             flexible == parseFlexibleMetadata(body)
         IN  IF ~standard.err
             THEN [err |-> "", strict |-> TRUE, value |-> standard.value]
             ELSE IF flexible.err
             THEN [err |-> "failed to parse metadata JSON", strict |-> FALSE,
                   value |-> NilMetadata]
             ELSE [err |-> "", strict |-> FALSE, value |-> flexible.value]

\* the shapes a value of the fetched document can have
ValueKinds == {"absent", "string", "number", "null", "bool"}

NameValue(kind) ==
    CASE kind = "string" -> JString("Cool Cat")
      [] kind = "number" -> JNumber(7)
      [] kind = "bool" -> JBool(TRUE)
      [] OTHER -> JNull

\* the ways a creator's verified flag is written
VerifiedKinds ==
    {"none", "absent", "true", "false", "one", "zero", "text true", "text 1", "text yes",
     "null"}

VerifiedValue(kind) ==
    CASE kind = "true" -> JBool(TRUE)
      [] kind = "false" -> JBool(FALSE)
      [] kind = "one" -> JNumber(1)
      [] kind = "zero" -> JNumber(0)
      [] kind = "text true" -> JString("true")
      [] kind = "text 1" -> JString("1")
      [] kind = "text yes" -> JString("yes")
      [] OTHER -> JNull

\* the creator object of a fetched document
CreatorDoc(verifiedKind) ==
    JObject([k \in {"address"} \cup (IF verifiedKind = "absent" THEN {} ELSE {"verified"}) |->
                IF k = "address" THEN JString("Cr8") ELSE VerifiedValue(verifiedKind)])

\* a fetched JSON object: a name and a symbol of some shape, an image, a
\* creator, and possibly a key outside the schema
ObjectBody(nameKind, symbolKind, verifiedKind, extra) ==
    JObject([k \in {"image"}
                    \cup (IF nameKind = "absent" THEN {} ELSE {"name"})
                    \cup (IF symbolKind = "absent" THEN {} ELSE {"symbol"})
                    \cup (IF verifiedKind = "none" THEN {} ELSE {"properties"})
                    \cup (IF extra THEN {"edition"} ELSE {}) |->
            CASE k = "image" -> JString("https://cdn.io/a.png")
              [] k = "name" -> NameValue(nameKind)
              [] k = "symbol" -> NameValue(symbolKind)
              [] k = "properties" ->
                    JObject([j \in {"creators"} |-> JArray(<<CreatorDoc(verifiedKind)>>)])
              [] OTHER -> JNumber(1)])

\* response bodies that are no JSON object
OtherBodies == {Garbage, JNull, JArray(<<>>), JString("Cool Cat"), JNumber(7), JBool(TRUE)}

Bodies ==
    OtherBodies \cup
    {ObjectBody(n, y, v, e) : n \in ValueKinds, y \in {"absent", "string"},
                                v \in VerifiedKinds, e \in BOOLEAN}

\* the owner and mint of the record backed up
FetchedOwner == "W1"

FetchedMint == "M1"

InitFetch ==
    fetched = [status |-> StatusOK, body |-> JNull, err |-> "", strict |-> TRUE,
               metadata |-> NilMetadata, written |-> <<>>, done |-> FALSE]

\* one backup of a record: the metadata document is fetched and parsed
\* (a failure leaves the record without metadata), and SaveNFT writes the
\* record into an empty store; written is the metadata.json of the record
BackupNFT(status, body) ==
    LET out == fetchOffChainMetadata(status, body)
        nftInfo == [MintAddress |-> FetchedMint, Owner |-> FetchedOwner,
                    Metadata |-> IF out.err = "" THEN out.value ELSE NilMetadata,
                    MediaFiles |-> <<>>]
        stored == SaveNFTOp((<<>> :> DirNode), 0, nftInfo).disk
        path == Append(buildNFTPath(FetchedOwner, FetchedMint), "metadata.json")
    IN  /\ fetched' = [status |-> status, body |-> body, err |-> out.err,
                       strict |-> out.strict, metadata |-> nftInfo.Metadata,
                       written |-> IF path \in DOMAIN stored THEN <<stored[path].bytes>>
                                   ELSE <<>>,
                       done |-> TRUE]
        /\ UNCHANGED notFetchVars

NextFetch ==
    \E status \in {StatusOK, 404}, body \in Bodies : BackupNFT(status, body)

(***************************************************************************)
(* Downloading media (internal/fetcher: MediaDownloader).                  *)
(***************************************************************************)
\* the URLs of the model; the last one does not parse (url.Parse fails)
MediaURLs == {"https://cdn.io/a.png", "https://cdn.io/clip", "%zz"}

UnparsableURLs == {"%zz"}

\* extractFilename: the last element of the URL's path, "" for an empty path
extractFilename(mediaURL) ==
    CASE mediaURL = "https://cdn.io/a.png" -> "a.png"
      [] mediaURL = "https://cdn.io/clip" -> "clip"
      [] OTHER -> ""

\* the ticks of the wall clock in a second
TicksPerSecond == 2

\* the ticks of the wall clock the model follows a run for
MaxTicks == 3

\* the Unix time at the start of the run
RunStart == 1700000000

\* time.Now().Unix(): the whole seconds of the wall clock
Unix(ticks) == RunStart + (ticks \div TicksPerSecond)

\* the name DownloadMedia gives a file whose URL has no file name:
\* fmt.Sprintf("media_%d", time.Now().Unix())
TimedFilename(unix) ==
    CASE unix = RunStart -> "media_1700000000"
      [] unix = RunStart + 1 -> "media_1700000001"
      [] OTHER -> "media_1700000002"

TimedFilenames == {TimedFilename(Unix(t)) : t \in 0..MaxTicks}

\* the Content-Type headers of the model
ContentTypes == {"image/png", ""}

\* getExtensionForContentType
getExtensionForContentType(contentType) ==
    CASE contentType = "image/png" -> ".png"
      [] contentType = "video/mp4" -> ".mp4"
      [] OTHER -> ""

\* filename + ext, for the names and extensions of the model
WithExtension(filename, ext) ==
    CASE ext = "" -> filename
      [] filename = "clip" /\ ext = ".png" -> "clip.png"
      [] filename = "clip" /\ ext = ".mp4" -> "clip.mp4"
      [] filename = "media_1700000000" /\ ext = ".png" -> "media_1700000000.png"
      [] filename = "media_1700000001" /\ ext = ".png" -> "media_1700000001.png"
      [] filename = "media_1700000002" /\ ext = ".png" -> "media_1700000002.png"
      [] filename = "media_1700000000" /\ ext = ".mp4" -> "media_1700000000.mp4"
      [] filename = "media_1700000001" /\ ext = ".mp4" -> "media_1700000001.mp4"
      [] filename = "media_1700000002" /\ ext = ".mp4" -> "media_1700000002.mp4"
      [] OTHER -> filename

\* strings.Contains(filename, ".")
HasDot(filename) == filename \notin {"clip"} \cup TimedFilenames

\* the file names DownloadMedia can produce from the URLs of the model
MediaFilenames ==
    {"a.png"} \cup {WithExtension("clip", getExtensionForContentType(c)) : c \in ContentTypes}

\* determineMediaType: the content type first, then the extension of the
\* file name as the URL gave it
determineMediaType(contentType, filename) ==
    CASE contentType = "image/png" -> "image"
      [] contentType = "video/mp4" -> "video"
      [] filename = "a.png" -> "image"
      [] OTHER -> "unknown"

\* fmt.Sprintf("%x", sha256): the hex SHA-256 (taken to be collision free)
Sha256Hex(bytes) == <<"sha256hex", bytes>>

\* the largest cap the model sets with SetMaxFileSize
MaxCap == 2

\* the longest response body: one byte more than the largest cap
MaxBody == MaxCap + 1

\* the response bodies: the first bytes of one stream
MediaBodies == {[i \in 1..n |-> i] : n \in 0..MaxBody}

\* resp.ContentLength of a response that declares no length
UnknownLength == -1

\* what the server and the network do to one request: the transport fails
\* (failed), or a response arrives with a status, a Content-Type, a
\* Content-Length (the length of the body, or unknown) and a body of which
\* the first `delivered` bytes can be read; when delivered is less than the
\* body's length the next read fails (a network error, an early end of the
\* stream, or the caller's context being cancelled or timing out)
NoResponse ==
    [failed |-> TRUE, status |-> 0, contentType |-> "", declared |-> FALSE,
     body |-> <<>>, delivered |-> 0]

Responses ==
    {NoResponse}
    \cup {[failed |-> FALSE, status |-> 404, contentType |-> "", declared |-> FALSE,
           body |-> <<>>, delivered |-> 0]}
    \cup {r \in [failed : {FALSE}, status : {StatusOK}, contentType : ContentTypes,
                  declared : BOOLEAN, body : MediaBodies, delivered : 0..MaxBody] :
            r.delivered <= Len(r.body)}

ContentLength(resp) == IF resp.declared THEN Len(resp.body) ELSE UnknownLength

\* the bytes io.Copy moves through the io.LimitedReader: [err, bytes, N];
\* the reader stops at the cap before it meets a later read error
CopyLimited(resp, limit) ==
    LET available == IF resp.delivered < Len(resp.body) THEN resp.delivered
                     ELSE Len(resp.body)
        n == IF available < limit THEN available ELSE limit
    IN  [err |-> n < limit /\ resp.delivered < Len(resp.body),
         bytes |-> SubSeq(resp.body, 1, n),
         N |-> limit - n]

\* the MediaFile DownloadMedia returns, a mutant that takes the size from
\* the Content-Length header
NewMediaFileSizeFromHeader(mediaURL, filename, contentType, mediaType, bytes, contentLength) ==
    [URL |-> mediaURL, Filename |-> filename, MediaType |-> mediaType,
     ContentType |-> contentType, Size |-> contentLength, Checksum |-> Sha256Hex(bytes)]

\* the MediaFile DownloadMedia returns: LocalPath is targetDir joined with
\* Filename; DownloadedAt is read by nothing and is left out
NewMediaFile(mediaURL, filename, contentType, mediaType, bytes, contentLength) ==
    [URL |-> mediaURL, Filename |-> filename, MediaType |-> mediaType,
     ContentType |-> contentType, Size |-> Len(bytes), Checksum |-> Sha256Hex(bytes)]

\* os.Remove(localPath) on the failure paths of DownloadMedia; a mutant that
\* leaves the file
RemoveOnErrorKeepFile(dir, filename) == dir

RemoveOnError(dir, filename) == [dir EXCEPT ![filename] = NoFile]

\* the check of resp.ContentLength against the cap; a mutant that creates the
\* file before it looks at the length
RejectedByLengthAfterCreate(dir, filename, contentLength, limit) ==
    [rejected |-> contentLength > limit,
     dir |-> IF contentLength > limit THEN [dir EXCEPT ![filename] = FileWith(EmptyString)]
             ELSE dir]

RejectedByLength(dir, filename, contentLength, limit) ==
    [rejected |-> contentLength > limit, dir |-> dir]

\* MediaDownloader.DownloadMedia into a directory with the given cap:
\* [err, created, filename, file, dir]; created tells whether os.Create was
\* reached
DownloadMediaOp(dir, limit, mediaURL, resp, unix) ==
    LET fail(msg, d, made, name) ==
            [err |-> msg, created |-> made, filename |-> name, file |-> <<>>, dir |-> d]
        base == IF extractFilename(mediaURL) = "" THEN TimedFilename(unix)
                ELSE extractFilename(mediaURL)
        contentType == resp.contentType
        mediaType == determineMediaType(contentType, base)
        filename == IF ~HasDot(base)
                    THEN WithExtension(base, getExtensionForContentType(contentType))
                    ELSE base
        length == RejectedByLength(dir, filename, ContentLength(resp), limit)
        opened == [dir EXCEPT ![filename] = FileWith(EmptyString)]
        copy == CopyLimited(resp, limit)
        written == [opened EXCEPT ![filename] = FileWith(copy.bytes)]
    IN  IF mediaURL \in UnparsableURLs THEN fail("invalid media URL", dir, FALSE, "")
        ELSE IF resp.failed THEN fail("failed to download media", dir, FALSE, "")
        ELSE IF resp.status # StatusOK THEN fail("HTTP error downloading media", dir, FALSE, "")
        ELSE IF length.rejected THEN fail("file too large", length.dir, FALSE, filename)
        ELSE IF copy.err
        THEN fail("failed to write media file", RemoveOnError(written, filename), TRUE, filename)
        ELSE IF copy.N = 0 /\ ContentLength(resp) = UnknownLength
        THEN fail("file too large: exceeded", RemoveOnError(written, filename), TRUE, filename)
        ELSE [err |-> "", created |-> TRUE, filename |-> filename,
              file |-> <<NewMediaFile(mediaURL, filename, contentType, mediaType,
                                      copy.bytes, ContentLength(resp))>>,
              dir |-> written]

\* NewMediaDownloader and an empty media directory; the default cap of 100 MB
\* is scaled to the largest cap of the model
InitMedia ==
    /\ mediaDir = [n \in MediaFilenames |-> NoFile]
    /\ maxFileSize = MaxCap
    /\ download = [url |-> "", contentLength |-> UnknownLength, err |-> "",
                   created |-> FALSE, filename |-> "", file |-> <<>>, done |-> FALSE]
    /\ acquired = [done |-> FALSE, metadata |-> NilMetadata, resps |-> <<>>,
                   attempts |-> <<>>, outcomes |-> <<>>, MediaFiles |-> <<>>, err |-> ""]
    /\ wallClock = 0

DownloadMedia(mediaURL, resp) ==
    LET out == DownloadMediaOp(mediaDir, maxFileSize, mediaURL, resp, Unix(wallClock))
    IN  /\ mediaDir' = out.dir
        /\ download' = [url |-> mediaURL,
                        contentLength |-> IF mediaURL \in UnparsableURLs \/ resp.failed
                                          THEN UnknownLength
                                          ELSE ContentLength(resp),
                        err |-> out.err, created |-> out.created,
                        filename |-> out.filename, file |-> out.file, done |-> TRUE]
        /\ UNCHANGED <<maxFileSize, acquired, wallClock>>
        /\ UNCHANGED notMediaVars

SetMaxFileSize(maxSize) ==
    /\ maxFileSize # maxSize
    /\ maxFileSize' = maxSize
    /\ UNCHANGED <<mediaDir, download, acquired, wallClock>>
    /\ UNCHANGED notMediaVars

NextMedia ==
    \/ \E mediaURL \in MediaURLs, resp \in Responses : DownloadMedia(mediaURL, resp)
    \/ \E maxSize \in 0..MaxCap : SetMaxFileSize(maxSize)

(***************************************************************************)
(* The destination names of the downloads of one run, as time passes.      *)
(***************************************************************************)
\* a URL with a file name in its path, and two whose path is empty
NamingURLs == {"https://cdn.io/a.png", "https://cdn.io/", "https://cdn.io"}

\* the responses of the run: two bodies, with and without a content type
NamingResponses ==
    {[failed |-> FALSE, status |-> StatusOK, contentType |-> c, declared |-> TRUE,
      body |-> b, delivered |-> Len(b)] : c \in ContentTypes, b \in {<<1>>, <<2>>}}

\* the file names the downloads of the run can produce
NamingFilenames ==
    {"a.png"} \cup {WithExtension(n, getExtensionForContentType(c)) :
                        n \in TimedFilenames, c \in ContentTypes}

\* the run starts with an empty media directory
InitNaming ==
    /\ mediaDir = [n \in NamingFilenames |-> NoFile]
    /\ maxFileSize = MaxCap
    /\ download = [url |-> "", contentLength |-> UnknownLength, err |-> "",
                   created |-> FALSE, filename |-> "", file |-> <<>>, done |-> FALSE]
    /\ acquired = [done |-> FALSE, metadata |-> NilMetadata, resps |-> <<>>,
                   attempts |-> <<>>, outcomes |-> <<>>, MediaFiles |-> <<>>, err |-> ""]
    /\ wallClock = 0

\* time passes: one tick of the wall clock
Tick ==
    /\ wallClock < MaxTicks
    /\ wallClock' = wallClock + 1
    /\ UNCHANGED <<mediaDir, maxFileSize, download, acquired>>
    /\ UNCHANGED notMediaVars

NextNaming ==
    \/ Tick
    \/ \E mediaURL \in NamingURLs, resp \in NamingResponses : DownloadMedia(mediaURL, resp)

(***************************************************************************)
(* Acquiring the media of a record (Fetcher.DownloadMediaFiles).           *)
(***************************************************************************)
\* the media URLs DownloadMediaFiles collects from the metadata: the image,
\* the animation URL, then the properties.files URIs, the empty ones skipped
CollectMediaURLs(metadata) ==
    (IF metadata.Image # "" THEN <<metadata.Image>> ELSE <<>>)
    \o (IF metadata.AnimationURL # "" THEN <<metadata.AnimationURL>> ELSE <<>>)
    \o SelectSeq([i \in 1..Len(metadata.Properties.Files) |->
                        metadata.Properties.Files[i].URI],
                 LAMBDA uri : uri # "")

\* the download loop, a mutant that gives up at the first failure:
\* [outcomes, MediaFiles, dir]
RECURSIVE DownloadEachStopAtFailure(_, _, _, _, _, _)
DownloadEachStopAtFailure(dir, limit, mediaURLs, resps, mediaFiles, unix) ==
    IF mediaURLs = <<>>
    THEN [outcomes |-> <<>>, MediaFiles |-> mediaFiles, dir |-> dir]
    ELSE LET out == DownloadMediaOp(dir, limit, Head(mediaURLs), Head(resps), unix)
         IN  IF out.err # ""
             THEN [outcomes |-> <<out.err>>, MediaFiles |-> mediaFiles, dir |-> out.dir]
             ELSE LET rest == DownloadEachStopAtFailure(out.dir, limit, Tail(mediaURLs),
                                                        Tail(resps), mediaFiles \o out.file,
                                                        unix)
                  IN  [rest EXCEPT !.outcomes = <<out.err>> \o rest.outcomes]

\* the download loop of DownloadMediaFiles over the collected URLs, the i-th
\* request answered by the i-th response: [outcomes, MediaFiles, dir]; a
\* failed download is reported and skipped
RECURSIVE DownloadEach(_, _, _, _, _, _)
DownloadEach(dir, limit, mediaURLs, resps, mediaFiles, unix) ==
    IF mediaURLs = <<>>
    THEN [outcomes |-> <<>>, MediaFiles |-> mediaFiles, dir |-> dir]
    ELSE LET out == DownloadMediaOp(dir, limit, Head(mediaURLs), Head(resps), unix)
             rest == DownloadEach(out.dir, limit, Tail(mediaURLs), Tail(resps),
                                  IF out.err = "" THEN mediaFiles \o out.file
                                  ELSE mediaFiles,
                                  unix)
         IN  [rest EXCEPT !.outcomes = <<out.err>> \o rest.outcomes]

\* Fetcher.DownloadMediaFiles: [err, attempts, outcomes, MediaFiles, dir]
DownloadMediaFilesOp(dir, limit, metadata, resps, unix) ==
    IF metadata.nil
    THEN [err |-> "", attempts |-> <<>>, outcomes |-> <<>>, MediaFiles |-> <<>>,
          dir |-> dir]
    ELSE LET mediaURLs == CollectMediaURLs(metadata)
             loop == DownloadEach(dir, limit, mediaURLs, resps, <<>>, unix)
         IN  [err |-> "", attempts |-> SubSeq(mediaURLs, 1, Len(loop.outcomes)),
              outcomes |-> loop.outcomes, MediaFiles |-> loop.MediaFiles,
              dir |-> loop.dir]

\* the properties.files lists of the records: none, or a file without a URI
\* and a file with one
FileLists == {<<>>, <<[URI |-> ""], [URI |-> "https://cdn.io/a.png"]>>}

\* the metadata of the records whose media is acquired
MediaMetadata ==
    {NilMetadata}
    \cup {[ZeroMetadata EXCEPT !.Image = image, !.AnimationURL = animation,
                               !.Properties = [Files |-> fileList, Creators |-> <<>>]] :
            image \in {"", "https://cdn.io/a.png", "%zz"},
            animation \in {"", "https://cdn.io/clip"},
            fileList \in FileLists}

\* the responses the requests of an acquisition get: no response, a bad
\* status, two bodies within the cap, and a body of unknown length over the cap
AcquireResponses ==
    {NoResponse,
     [failed |-> FALSE, status |-> 404, contentType |-> "", declared |-> FALSE,
      body |-> <<>>, delivered |-> 0],
     [failed |-> FALSE, status |-> StatusOK, contentType |-> "image/png",
      declared |-> TRUE, body |-> <<1>>, delivered |-> 1],
     [failed |-> FALSE, status |-> StatusOK, contentType |-> "image/png",
      declared |-> TRUE, body |-> <<2, 2>>, delivered |-> 2],
     [failed |-> FALSE, status |-> StatusOK, contentType |-> "image/png",
      declared |-> FALSE, body |-> [i \in 1..MaxBody |-> i], delivered |-> MaxBody]}

\* one acquisition: the media directory of the record starts empty
DownloadMediaFiles(metadata, resps) ==
    LET out == DownloadMediaFilesOp([n \in MediaFilenames |-> NoFile], maxFileSize,
                                    metadata, resps, Unix(wallClock))
    IN  /\ mediaDir' = out.dir
        /\ acquired' = [done |-> TRUE, metadata |-> metadata, resps |-> resps,
                        attempts |-> out.attempts, outcomes |-> out.outcomes,
                        MediaFiles |-> out.MediaFiles, err |-> out.err]
        /\ UNCHANGED <<maxFileSize, download, wallClock>>
        /\ UNCHANGED notMediaVars

NextAcquire ==
    \E metadata \in MediaMetadata :
        \E resps \in [1..Len(CollectMediaURLs(metadata)) -> AcquireResponses] :
            DownloadMediaFiles(metadata, resps)

(***************************************************************************)
(* Decoding the metadata account (Fetcher.parseMetadataURI). Bytes are     *)
(* integers 0..255 and strings are sequences of bytes.                     *)
(***************************************************************************)
\* len(data) < 100
MinAccountSize == 100

\* data[0] == 4: the key of a metadata account
MetadataAccountKey == 4

\* offset := 65: past the key, the update authority and the mint
FieldsOffset == 65

\* the caps on the length prefixes
MaxNameLength == 200

MaxSymbolLength == 200

MaxURILength == 1000

\* len(uri) < 5
MinURILength == 5

\* "http", "ar" and "ipfs"
PrefixHttp == <<104, 116, 116, 112>>

PrefixAr == <<97, 114>>

PrefixIpfs == <<105, 112, 102, 115>>

\* the little endian u32 at data[offset : offset+4] (Go indexes from 0); a
\* value of 2^31 or more is held as 2^31 - 1, which is above every cap and
\* every length of a buffer alike
ReadU32(data, offset) ==
    IF data[offset + 4] > 127 THEN 2147483647
    ELSE data[offset + 1] + data[offset + 2] * 256 + data[offset + 3] * 65536
            + data[offset + 4] * 16777216

\* offset+n > len(data) is false: the n bytes at offset are in the buffer;
\* a mutant that never finds the buffer too short
HasBytesUnchecked(data, offset, n) == TRUE

HasBytes(data, offset, n) == ~(offset + n > Len(data))

\* length > cap; a mutant that rejects a length at the cap
TooLargeAtCap(length, cap) == length >= cap

TooLarge(length, cap) == length > cap

\* one length-prefixed field at offset: [err, panic, text, next]; a read or a
\* slice outside the buffer is a run-time panic
ReadField(data, offset, cap, field) ==
    LET none == [err |-> <<>>, panic |-> FALSE, text |-> <<>>, next |-> offset]
    IN  IF ~HasBytes(data, offset, 4)
        THEN [none EXCEPT !.err = <<"data too short for", field, "length">>]
        ELSE IF offset + 4 > Len(data) THEN [none EXCEPT !.panic = TRUE]
        ELSE LET length == ReadU32(data, offset)
             IN  IF TooLarge(length, cap)
                 THEN [none EXCEPT !.err = <<"length too large", field>>]
                 ELSE IF ~HasBytes(data, offset + 4, length)
                 THEN [none EXCEPT !.err = <<"data too short for", field>>]
                 ELSE IF offset + 4 + length > Len(data) THEN [none EXCEPT !.panic = TRUE]
                 ELSE [none EXCEPT !.text = SubSeq(data, offset + 5, offset + 4 + length),
                                   !.next = offset + 4 + length]

\* strings.TrimRight(uri, "\x00")
TrimRightNUL(text) ==
    LET kept == {i \in 1..Len(text) : text[i] # 0}
    IN  IF kept = {} THEN <<>>
        ELSE SubSeq(text, 1, CHOOSE i \in kept : \A j \in kept : j <= i)

\* the white space of strings.TrimSpace: tab, line feed, vertical tab, form
\* feed, carriage return and space
WhiteSpace == {9, 10, 11, 12, 13, 32}

\* strings.TrimSpace(uri): leading and trailing white space removed
TrimSpace(text) ==
    LET kept == {i \in 1..Len(text) : text[i] \notin WhiteSpace}
    IN  IF kept = {} THEN <<>>
        ELSE SubSeq(text, CHOOSE i \in kept : \A j \in kept : i <= j,
                          CHOOSE i \in kept : \A j \in kept : j <= i)

\* the check of the URI's first bytes; a mutant that wants the whole scheme
RecognizedPrefixHttpOnly(uri) == SubSeq(uri, 1, 4) = PrefixHttp

RecognizedPrefix(uri) ==
    \/ SubSeq(uri, 1, 4) = PrefixHttp
    \/ SubSeq(uri, 1, 2) = PrefixAr
    \/ SubSeq(uri, 1, 4) = PrefixIpfs

\* parseMetadataURI: [err, panic, uri]
parseMetadataURI(data) ==
    LET fail(e) == [err |-> e, panic |-> FALSE, uri |-> <<>>]
        panicked == [err |-> <<>>, panic |-> TRUE, uri |-> <<>>]
        name == ReadField(data, FieldsOffset, MaxNameLength, "name")
        symbol == ReadField(data, name.next, MaxSymbolLength, "symbol")
        uriField == ReadField(data, symbol.next, MaxURILength, "URI")
        uri == TrimSpace(TrimRightNUL(uriField.text))
    IN  IF Len(data) < MinAccountSize THEN fail(<<"metadata account data too short">>)
        ELSE IF data[1] # MetadataAccountKey THEN fail(<<"not a valid metadata account">>)
        ELSE IF name.panic THEN panicked
        ELSE IF name.err # <<>> THEN fail(name.err)
        ELSE IF symbol.panic THEN panicked
        ELSE IF symbol.err # <<>> THEN fail(symbol.err)
        ELSE IF uriField.panic THEN panicked
        ELSE IF uriField.err # <<>> THEN fail(uriField.err)
        ELSE IF Len(uri) < MinURILength THEN fail(<<"URI too short">>)
        ELSE IF RecognizedPrefix(uri) THEN [err |-> <<>>, panic |-> FALSE, uri |-> uri]
        ELSE fail(<<"URI format not recognized">>)

\* n bytes of the same value
Fill(n, byte) == [i \in 1..n |-> byte]

\* a u32 in little endian
EncodeU32(n) == <<n % 256, (n \div 256) % 256, (n \div 65536) % 256, (n \div 16777216) % 256>>

\* "https://a.co/m.json"
URIHttps == <<104, 116, 116, 112, 115, 58, 47, 47, 97, 46, 99, 111, 47, 109, 46, 106, 115, 111, 110>>

\* "http://a.co/m"
URIHttp == <<104, 116, 116, 112, 58, 47, 47, 97, 46, 99, 111, 47, 109>>

\* "ar://Zk3q"
URIArweave == <<97, 114, 58, 47, 47, 90, 107, 51, 113>>

\* "ipfs://Qm12"
URIIpfs == <<105, 112, 102, 115, 58, 47, 47, 81, 109, 49, 50>>

\* "ar://"
URIArweaveBare == <<97, 114, 58, 47, 47>>

\* "arxiv.org/a"
URIArxiv == <<97, 114, 120, 105, 118, 46, 111, 114, 103, 47, 97>>

\* "httpx://h"
URIHttpx == <<104, 116, 116, 112, 120, 58, 47, 47, 104>>

\* "ipfsx://q"
URIIpfsx == <<105, 112, 102, 115, 120, 58, 47, 47, 113>>

\* "ftp://host/f"
URIFtp == <<102, 116, 112, 58, 47, 47, 104, 111, 115, 116, 47, 102>>

\* "ar:/"
URIShort == <<97, 114, 58, 47>>

\* a URI of exactly the cap, and one a byte longer
URIAtCap == URIHttps \o Fill(MaxURILength - Len(URIHttps), 97)

URIOverCap == URIAtCap \o <<97>>

\* the URIs written into the accounts of the model
URITexts ==
    {<<>>, URIHttps, URIHttp, URIArweave, URIIpfs, URIArweaveBare, URIArxiv, URIHttpx,
     URIIpfsx, URIFtp, URIShort}

\* the padding after a name, a symbol or a URI inside its field: none, NUL
\* bytes, or a space and NUL bytes
Paddings == {<<>>, <<0, 0, 0>>, <<32, 0, 0>>}

\* the URI fields: a text and its padding, or a long text
URIFields ==
    {[text |-> t, padding |-> p] : t \in URITexts, p \in Paddings}
    \cup {[text |-> t, padding |-> <<>>] : t \in {URIAtCap, URIOverCap}}

\* the name and symbol fields: their bytes ("Cat" and NUL bytes, letters up
\* to and over the cap)
NameFields == {<<>>, <<67, 97, 116, 0, 0>>, Fill(MaxNameLength, 78), Fill(MaxNameLength + 1, 78)}

SymbolFields == {<<>>, Fill(MaxSymbolLength, 83), Fill(MaxSymbolLength + 1, 83)}

\* the bytes of the account after the URI field (creators and flags, or
\* nothing)
Tails == {<<>>, Fill(40, 0)}

\* the account data of the fixed layout: the key, the update authority and
\* the mint, then the three length-prefixed fields and the tail
Layout(key, name, symbol, uriBytes, tail) ==
    <<key>> \o Fill(64, 0)
    \o EncodeU32(Len(name)) \o name
    \o EncodeU32(Len(symbol)) \o symbol
    \o EncodeU32(Len(uriBytes)) \o uriBytes
    \o tail

\* where a truncated account ends: nowhere (it is whole), or one byte before
\* the end of the named part
Cuts == {"whole", "name length", "name", "symbol length", "symbol", "URI length", "URI"}

\* the length an account of the given fields is cut to
CutLength(name, symbol, uriBytes, tail, cut) ==
    LET nameEnd == FieldsOffset + 4 + Len(name)
        symbolEnd == nameEnd + 4 + Len(symbol)
        uriEnd == symbolEnd + 4 + Len(uriBytes)
        short(n) == IF n > 0 THEN n - 1 ELSE 0
    IN  CASE cut = "name length" -> FieldsOffset + 3
          [] cut = "name" -> short(nameEnd)
          [] cut = "symbol length" -> nameEnd + 3
          [] cut = "symbol" -> short(symbolEnd)
          [] cut = "URI length" -> symbolEnd + 3
          [] cut = "URI" -> short(uriEnd)
          [] OTHER -> uriEnd + Len(tail)

\* the accounts handed to parseMetadataURI: how each was built, and its data
Accounts ==
    {[key |-> k, name |-> n, symbol |-> y, uri |-> u, tail |-> t, cut |-> c,
      data |-> SubSeq(Layout(k, n, y, u.text \o u.padding, t), 1,
                      CutLength(n, y, u.text \o u.padding, t, c))] :
        k \in {MetadataAccountKey, 0}, n \in NameFields, y \in SymbolFields,
        u \in URIFields, t \in Tails, c \in Cuts}

\* buffers of no layout: empty, one byte, a byte short of the least size,
\* and buffers of the least size that are all zero or all 255 after the key
RawBuffers ==
    {<<>>, <<MetadataAccountKey>>, Fill(MinAccountSize - 1, MetadataAccountKey),
     <<MetadataAccountKey>> \o Fill(MinAccountSize - 1, 0),
     <<MetadataAccountKey>> \o Fill(MinAccountSize - 1, 255)}

RawAccounts ==
    {[key |-> 0, name |-> <<>>, symbol |-> <<>>, uri |-> [text |-> <<>>, padding |-> <<>>],
      tail |-> <<>>, cut |-> "raw", data |-> d] : d \in RawBuffers}

NotDecoded == [done |-> FALSE, err |-> <<>>, panic |-> FALSE, uri |-> <<>>]

\* no account has been read
InitDecode ==
    /\ account = [key |-> 0, name |-> <<>>, symbol |-> <<>>,
                  uri |-> [text |-> <<>>, padding |-> <<>>], tail |-> <<>>,
                  cut |-> "whole", data |-> <<>>]
    /\ decoded = NotDecoded

\* findMetadataURI hands the data of an account to parseMetadataURI
ParseMetadataURI ==
    LET out == parseMetadataURI(account.data)
    IN  /\ ~decoded.done
        /\ decoded' = [done |-> TRUE, err |-> out.err, panic |-> out.panic, uri |-> out.uri]
        /\ UNCHANGED account
        /\ UNCHANGED notDecodeVars

NextDecode == ParseMetadataURI

(***************************************************************************)
(* Reading the mint account (Fetcher.FetchNFTInfo, FetchNFTInfoDemo).      *)
(***************************************************************************)
\* len(data) >= 44: the least mint account data the fetcher parses
MintHeaderSize == 44

\* data[44]: the byte the decimals are read from
DecimalsOffset == 44

\* the mint authority (an option tag and a public key) before the supply
MintAuthoritySize == 36

\* the supplies and decimals of the mints of the model
Supplies == {0, 1, 2}

DecimalsValues == {0, 6}

\* the sizes of the account data: empty, around the least size, and with the
\* flags after the decimals
MintSizes == {0, MintHeaderSize - 1, MintHeaderSize, MintHeaderSize + 1, MintHeaderSize + 2}

\* the data of an SPL mint account: the mint authority, the supply as a
\* little endian u64, the decimals, the initialized flag
MintData(supply, decimals) ==
    Fill(MintAuthoritySize, 0) \o EncodeU32(supply) \o Fill(4, 0) \o <<decimals, 1>>

MintAccounts ==
    {[supply |-> supply, decimals |-> decimals,
      data |-> SubSeq(MintData(supply, decimals), 1, size)] :
        supply \in Supplies, decimals \in DecimalsValues, size \in MintSizes}

\* "Parse mint data to get supply and decimals": [err, Supply, Decimals]; the
\* supply is taken to be 1 and the account data is not asked for it, and data
\* below the least size leaves the zero values of the record
ParseMintData(data) ==
    IF Len(data) >= MintHeaderSize
    THEN LET decimals == IF Len(data) > DecimalsOffset THEN data[DecimalsOffset + 1] ELSE 0
         IN  IF decimals # 0
             THEN [err |-> "NFTs should have 0 decimals", Supply |-> 1, Decimals |-> decimals]
             ELSE [err |-> "", Supply |-> 1, Decimals |-> decimals]
    ELSE [err |-> "", Supply |-> 0, Decimals |-> 0]

\* the wallet of the configuration, and the owner the demo sets
ConfigWallet == "W1"

DemoWallet == "11111111111111111111111111111112"

NotFetched ==
    [done |-> FALSE, op |-> "", err |-> "", Supply |-> 0, Decimals |-> 0, Owner |-> "",
     Metadata |-> NilMetadata]

\* what a call that returns an error leaves: no record
FetchFailed(op, err) == [NotFetched EXCEPT !.done = TRUE, !.op = op, !.err = err]

\* FetchNFTInfo: rpcFails tells whether GetAccountInfo fails, owned whether
\* the wallet has a token account of the mint, metadata what findMetadataURI
\* and fetchOffChainMetadata yield (nil when either fails)
FetchNFTInfoOp(acct, rpcFails, owned, metadata) ==
    LET parsed == ParseMintData(acct.data)
    IN  IF rpcFails THEN FetchFailed("FetchNFTInfo", "failed to get mint account info")
        ELSE IF parsed.err # "" THEN FetchFailed("FetchNFTInfo", parsed.err)
        ELSE IF ~owned THEN FetchFailed("FetchNFTInfo", "token account not found for mint")
        ELSE [done |-> TRUE, op |-> "FetchNFTInfo", err |-> "", Supply |-> parsed.Supply,
              Decimals |-> parsed.Decimals, Owner |-> ConfigWallet, Metadata |-> metadata]

\* FetchNFTInfoDemo: the same without the ownership check
FetchNFTInfoDemoOp(acct, rpcFails, metadata) ==
    LET parsed == ParseMintData(acct.data)
    IN  IF rpcFails THEN FetchFailed("FetchNFTInfoDemo", "failed to get mint account info")
        ELSE IF parsed.err # "" THEN FetchFailed("FetchNFTInfoDemo", parsed.err)
        ELSE [done |-> TRUE, op |-> "FetchNFTInfoDemo", err |-> "", Supply |-> parsed.Supply,
              Decimals |-> parsed.Decimals, Owner |-> DemoWallet, Metadata |-> metadata]

\* no mint account has been read
InitMint ==
    /\ mintAccount = [supply |-> 1, decimals |-> 0, data |-> <<>>]
    /\ fetchedInfo = NotFetched

FetchNFTInfo(rpcFails, owned, metadata) ==
    /\ fetchedInfo' = FetchNFTInfoOp(mintAccount, rpcFails, owned, metadata)
    /\ UNCHANGED mintAccount
    /\ UNCHANGED notMintVars

FetchNFTInfoDemo(rpcFails, metadata) ==
    /\ fetchedInfo' = FetchNFTInfoDemoOp(mintAccount, rpcFails, metadata)
    /\ UNCHANGED mintAccount
    /\ UNCHANGED notMintVars

NextMint ==
    \/ \E rpcFails \in BOOLEAN, owned \in BOOLEAN,
          metadata \in {NilMetadata, MetadataNamed("Test NFT")} :
            FetchNFTInfo(rpcFails, owned, metadata)
    \/ \E rpcFails \in BOOLEAN, metadata \in {NilMetadata, MetadataNamed("Test NFT")} :
            FetchNFTInfoDemo(rpcFails, metadata)

(***************************************************************************)
(* Concurrent SaveNFT calls on one FileStorage. A call is a sequence of    *)
(* file system calls with no lock around it; each of them is one step.     *)
(***************************************************************************)
\* the goroutines that call SaveNFT
Callers == {"A", "B"}

\* the records the callers save
ConcurrentInfos ==
    {i \in [MintAddress : Mints, Owner : Owners,
             Metadata : {NilMetadata, MetadataNamed("Test NFT"), MetadataNamed("Other NFT")},
             MediaFiles : MediaLists] : <<i.Owner, i.MintAddress>> \in Pairs}

\* the per-mint directory of a call; a mutant that leaves the mint out of
\* the path
CallDirPerWallet(call) == <<"wallets", Base58(call.nftInfo.Owner), "nfts">>

CallDir(call) == buildNFTPath(call.nftInfo.Owner, call.nftInfo.MintAddress)

\* the document a call writes to a file of its directory
CallDocument(call, name) ==
    CASE name = "nft_data.json" ->
            MarshalStoredNFT(NewStoredNFT(call.nftInfo, call.time, CallDir(call)))
      [] name = "metadata.json" -> MarshalMetadata(call.nftInfo.Metadata)
      [] OTHER -> MarshalMediaFiles(call.nftInfo.MediaFiles)

\* the step after the one named, the writes the record does not ask for
\* left out
StepAfter(nftInfo, step) ==
    CASE step = "MkdirAll" -> "nft_data.json"
      [] step = "nft_data.json" ->
            IF ~nftInfo.Metadata.nil THEN "metadata.json"
            ELSE IF Len(nftInfo.MediaFiles) > 0 THEN "media" ELSE "done"
      [] step = "metadata.json" -> IF Len(nftInfo.MediaFiles) > 0 THEN "media" ELSE "done"
      [] step = "media" -> "media_manifest.json"
      [] OTHER -> "done"

NoCall == [pc |-> "idle", nftInfo |-> <<>>, time |-> 0, err |-> "", overlapped |-> FALSE]

\* another caller is between the first and the last step of its call
\* (history: overlapped records that a call took a step at such a time)
Overlaps(c) == \E o \in Callers \ {c} : callers[o].pc \notin {"idle", "MkdirAll", "done"}

\* NewFileStorage: an empty base directory, and no call made
InitConcurrent ==
    /\ tree = (<<>> :> DirNode)
    /\ callers = [c \in Callers |-> NoCall]
    /\ lastWriter = <<>>
    /\ clock = 0

\* a caller calls SaveNFT with a record
SaveNFTCall(c, nftInfo) ==
    /\ callers[c].pc = "idle"
    /\ callers' = [callers EXCEPT ![c] = [pc |-> "MkdirAll", nftInfo |-> nftInfo,
                                          time |-> 0, err |-> "",
                                          overlapped |-> FALSE]]
    /\ UNCHANGED <<tree, lastWriter, clock>>
    /\ UNCHANGED notConcurrentVars

\* os.MkdirAll(nftDir), then the StoredNFT is built with time.Now()
SaveNFTMkdirAll(c) ==
    /\ callers[c].pc = "MkdirAll"
    /\ tree' = MkdirAll(tree, CallDir(callers[c]))
    /\ callers' = [callers EXCEPT ![c].pc = StepAfter(callers[c].nftInfo, "MkdirAll"),
                                  ![c].time = clock,
                                  ![c].overlapped = Overlaps(c)]
    /\ clock' = clock + 1
    /\ UNCHANGED lastWriter
    /\ UNCHANGED notConcurrentVars

\* saveJSON of nft_data.json, metadata.json or media_manifest.json
SaveNFTWrite(c, name) ==
    LET call == callers[c]
        path == Append(CallDir(call), name)
        out == saveJSON(tree, path, CallDocument(call, name))
    IN  /\ call.pc = name
        /\ tree' = out.disk
        /\ callers' = [callers EXCEPT ![c].pc = IF out.err THEN "done"
                                                ELSE StepAfter(call.nftInfo, name),
                                      ![c].err = IF out.err THEN "failed to save" ELSE "",
                                      ![c].overlapped = call.overlapped \/ Overlaps(c)]
        /\ lastWriter' = IF out.err THEN lastWriter ELSE (path :> c) @@ lastWriter
        /\ UNCHANGED clock
        /\ UNCHANGED notConcurrentVars

\* os.MkdirAll(mediaDir)
SaveNFTMediaDir(c) ==
    /\ callers[c].pc = "media"
    /\ tree' = MkdirAll(tree, Append(CallDir(callers[c]), "media"))
    /\ callers' = [callers EXCEPT ![c].pc = StepAfter(callers[c].nftInfo, "media"),
                                  ![c].overlapped = callers[c].overlapped \/ Overlaps(c)]
    /\ UNCHANGED <<lastWriter, clock>>
    /\ UNCHANGED notConcurrentVars

NextConcurrent ==
    \E c \in Callers :
        \/ \E nftInfo \in ConcurrentInfos : SaveNFTCall(c, nftInfo)
        \/ SaveNFTMkdirAll(c)
        \/ \E name \in {"nft_data.json", "metadata.json", "media_manifest.json"} :
                SaveNFTWrite(c, name)
        \/ SaveNFTMediaDir(c)

(***************************************************************************)
(* The write path and the verify path on one record: the media is          *)
(* downloaded into the media directory of the record, SaveNFT stores the   *)
(* record, and performVerification reads the directory of the record.      *)
(***************************************************************************)
\* the files of a media directory as nodes of the tree below mediaPath
MediaTree(d, mediaPath, dir) ==
    LET names == {n \in DOMAIN dir : dir[n].exists}
        paths == {Append(mediaPath, n) : n \in names}
        made == MkdirAll(d, mediaPath)
    IN  [q \in DOMAIN made \cup paths |->
            IF q \in paths THEN FileNode(dir[q[Len(q)]].bytes) ELSE made[q]]

\* the directory performVerification is given, as it reads it: the files
\* that are entries of nftPath itself (os.Stat of nftPath/name, and the
\* entries of os.ReadDir(nftPath) that are no directories)
DirectoryView(d, nftPath) ==
    [n \in DirNames |->
        IF Append(nftPath, n) \in DOMAIN d /\ d[Append(nftPath, n)].kind = "file"
        THEN FileWith(d[Append(nftPath, n)].bytes)
        ELSE NoFile]

NotVerified == [done |-> FALSE, force |-> FALSE, result |-> <<>>]

InitBackup ==
    /\ backedUp = [done |-> FALSE, nftInfo |-> <<>>, tree |-> (<<>> :> DirNode)]
    /\ verdict = NotVerified

\* the backup of one record into an empty store: DownloadMediaFiles into the
\* media directory of the record, then SaveNFT
BackupWithMedia(metadata, resps) ==
    LET nftDir == buildNFTPath(FetchedOwner, FetchedMint)
        got == DownloadMediaFilesOp([n \in MediaFilenames |-> NoFile], MaxCap, metadata,
                                    resps, RunStart)
        nftInfo == [MintAddress |-> FetchedMint, Owner |-> FetchedOwner,
                    Metadata |-> metadata, MediaFiles |-> got.MediaFiles]
        media == IF metadata.nil THEN (<<>> :> DirNode)
                 ELSE MediaTree((<<>> :> DirNode), Append(nftDir, "media"), got.dir)
        out == SaveNFTOp(media, 0, nftInfo)
    IN  /\ backedUp' = [done |-> out.err = "", nftInfo |-> nftInfo, tree |-> out.disk]
        /\ verdict' = NotVerified
        /\ UNCHANGED notBackupVars

\* runVerify's performVerification on the directory of the record
VerifyBackup(force) ==
    LET nftDir == buildNFTPath(FetchedOwner, FetchedMint)
        out == performVerification(DirectoryView(backedUp.tree, nftDir), {}, TRUE, force)
        hashPath == Append(nftDir, "hash.txt")
    IN  /\ backedUp.done
        /\ verdict' = [done |-> TRUE, force |-> force, result |-> out.result]
        /\ backedUp' = [backedUp EXCEPT !.tree =
                            IF out.files["hash.txt"].exists
                            THEN WriteFileAt(backedUp.tree, hashPath,
                                             out.files["hash.txt"].bytes)
                            ELSE backedUp.tree]
        /\ UNCHANGED notBackupVars

NextBackup ==
    \/ \E metadata \in MediaMetadata :
        \E resps \in [1..Len(CollectMediaURLs(metadata)) -> AcquireResponses] :
            BackupWithMedia(metadata, resps)
    \/ \E force \in BOOLEAN : VerifyBackup(force)

(***************************************************************************)
(* The list-tokens command (cmd/solvault/cmd/list-tokens.go): one step for *)
(* the start of the command, one for each token account of its loop, one   *)
(* for its return.                                                         *)
(***************************************************************************)
\* the most token accounts the wallet of the model holds
MaxTokenAccounts == 2

\* the token accounts of the wallet as the RPC node returns them, each with
\* what the node answers when the fetcher asks for its mint: an NFT whose
\* metadata is found, one without off-chain metadata, one whose mint account
\* cannot be read, a fungible token and an account whose mint is no public
\* key
TokenAccounts ==
    {[mint |-> "M1", validMint |-> TRUE, decimals |-> 0, amount |-> "1", uiAmount |-> 1,
      mintDecimals |-> 0, rpcFails |-> FALSE, metadata |-> MetadataNamed("Test NFT")],
     [mint |-> "M2", validMint |-> TRUE, decimals |-> 0, amount |-> "1", uiAmount |-> 1,
      mintDecimals |-> 0, rpcFails |-> FALSE, metadata |-> NilMetadata],
     [mint |-> "M3", validMint |-> TRUE, decimals |-> 0, amount |-> "1", uiAmount |-> 1,
      mintDecimals |-> 0, rpcFails |-> TRUE, metadata |-> NilMetadata],
     [mint |-> "M4", validMint |-> TRUE, decimals |-> 6, amount |-> "5000000", uiAmount |-> 5,
      mintDecimals |-> 6, rpcFails |-> FALSE, metadata |-> NilMetadata],
     [mint |-> "not base58", validMint |-> FALSE, decimals |-> 0, amount |-> "1",
      uiAmount |-> 1, mintDecimals |-> 0, rpcFails |-> FALSE, metadata |-> NilMetadata]}

\* the wallets of the model: every sequence of at most MaxTokenAccounts
TokenAccountLists ==
    UNION {[1..n -> TokenAccounts] : n \in 0..MaxTokenAccounts}

\* "decimals == 0 && amount == "1" && uiAmount == 1"
LooksLikeNFT(tokenInfo) ==
    tokenInfo.decimals = 0 /\ tokenInfo.amount = "1" /\ tokenInfo.uiAmount = 1

\* the pretty branch of the loop body: it reads nftInfo.Metadata without
\* looking at err, and nftInfo is nil when FetchNFTInfo returned an error
PrettyBlock(fetch) ==
    IF fetch.err # "" THEN [panic |-> TRUE, line |-> ""]
    ELSE IF ~fetch.Metadata.nil THEN [panic |-> FALSE, line |-> "Name"]
    ELSE [panic |-> FALSE, line |-> "Metadata not found"]

\* the default branch of the loop body
DefaultBlock(fetch) ==
    IF fetch.err = "" /\ ~fetch.Metadata.nil THEN [panic |-> FALSE, line |-> "Name"]
    ELSE IF fetch.err = "" THEN [panic |-> FALSE, line |-> "Metadata URI"]
    ELSE [panic |-> FALSE, line |-> "(not found)"]

\* the body of the loop for one token account: [panic, counted, line]; line
\* is "" for an account that is passed over
ListTokenAccount(tokenInfo, pretty) ==
    IF ~LooksLikeNFT(tokenInfo) THEN [panic |-> FALSE, counted |-> FALSE, line |-> ""]
    ELSE IF ~tokenInfo.validMint
    THEN [panic |-> FALSE, counted |-> TRUE, line |-> "(invalid mint pubkey)"]
    ELSE LET fetch == FetchNFTInfoOp(
                          [data |-> MintData(1, tokenInfo.mintDecimals)],
                          tokenInfo.rpcFails, TRUE, tokenInfo.metadata)
             block == IF pretty THEN PrettyBlock(fetch) ELSE DefaultBlock(fetch)
         IN  [panic |-> block.panic, counted |-> TRUE, line |-> block.line]

\* the command has not been run
InitListTokens ==
    listing = [pc |-> "idle", prettyOutput |-> FALSE, tokenAccounts |-> <<>>,
               next |-> 1, nftCount |-> 0, output |-> <<>>, err |-> ""]

\* the start of the command up to the loop: GetTokenAccountsByOwner fails, or
\* returns no account, or the loop is entered
ListTokens(pretty, accts, rpcFails) ==
    /\ listing.pc = "idle"
    /\ listing' =
            IF rpcFails
            THEN [listing EXCEPT !.pc = "returned", !.prettyOutput = pretty,
                                 !.err = "Failed to get token accounts"]
            ELSE IF Len(accts) = 0
            THEN [listing EXCEPT !.pc = "returned", !.prettyOutput = pretty,
                                 !.output = <<"No token accounts found">>]
            ELSE [listing EXCEPT !.pc = "loop", !.prettyOutput = pretty,
                                 !.tokenAccounts = accts]
    /\ UNCHANGED notListVars

\* one pass of "for _, account := range tokenAccounts"
ListTokensNext ==
    /\ listing.pc = "loop"
    /\ listing.next <= Len(listing.tokenAccounts)
    /\ LET out == ListTokenAccount(listing.tokenAccounts[listing.next], listing.prettyOutput)
       IN  listing' =
               IF out.panic
               THEN [listing EXCEPT !.pc = "panic",
                                    !.nftCount = @ + 1,
                                    !.err = "nil pointer dereference"]
               ELSE [listing EXCEPT !.next = @ + 1,
                                    !.nftCount = IF out.counted THEN @ + 1 ELSE @,
                                    !.output = IF out.line = "" THEN @ ELSE Append(@, out.line)]
    /\ UNCHANGED notListVars

\* the end of the loop: the summary and "return nil"
ListTokensReturn ==
    /\ listing.pc = "loop"
    /\ listing.next > Len(listing.tokenAccounts)
    /\ listing' = [listing EXCEPT !.pc = "returned",
                                  !.output = Append(@, IF listing.nftCount = 0
                                                       THEN "No NFTs found"
                                                       ELSE "Found NFT(s)")]
    /\ UNCHANGED notListVars

NextListTokens ==
    \/ \E pretty \in BOOLEAN, accts \in TokenAccountLists, rpcFails \in BOOLEAN :
            ListTokens(pretty, accts, rpcFails)
    \/ ListTokensNext
    \/ ListTokensReturn

(***************************************************************************)
(* The verify command and the list command on one NFT directory            *)
(* (cmd/solvault/cmd/verify.go runVerify and generateProof, list.go        *)
(* analyzeNFTDirectory).                                                   *)
(***************************************************************************)
NoProof == [exists |-> FALSE, status |-> "", image_hash |-> EmptyString,
            metadata_hash |-> EmptyString, hash_match |-> FALSE]

\* generateProof: the document written to proof.json (the name, the version
\* and the time of the run left out)
generateProof(result) ==
    [exists |-> TRUE, status |-> result.Status, image_hash |-> result.ImageHash,
     metadata_hash |-> result.MetadataHash, hash_match |-> result.HashMatch]

\* analyzeNFTDirectory: the entry of the list command for a directory
analyzeNFTDirectory(fs, proof) ==
    LET HasMetadata == fileExists(fs, "metadata.json")
        HasHash == fileExists(fs, "hash.txt")
        HasProof == proof.exists
        HasImage == \E i \in 1..Len(imageExtensions) : fileExists(fs, imageExtensions[i])
    IN  [HasMetadata |-> HasMetadata, HasImage |-> HasImage, HasHash |-> HasHash,
         HasProof |-> HasProof,
         Status |-> IF HasMetadata /\ HasImage /\ HasHash
                    THEN IF HasProof THEN "verified" ELSE "backed-up"
                    ELSE "incomplete"]

NotRun == [done |-> FALSE, Status |-> ""]

NotListed == [done |-> FALSE, Status |-> "", HasProof |-> FALSE, after |-> NotRun]

InitProof ==
    /\ proofFile = NoProof
    /\ lastRun = NotRun
    /\ listedAs = NotListed

\* runVerify on the directory: performVerification, then generateProof
\* (os.WriteFile of proof.json fails in a directory that cannot be written)
RunVerify(force) ==
    LET out == performVerification(files, unreadable, writable, force)
    IN  /\ files' = out.files
        /\ proofFile' = IF writable THEN generateProof(out.result) ELSE proofFile
        /\ lastRun' = [done |-> TRUE, Status |-> out.result.Status]
        /\ UNCHANGED <<unreadable, writable, calls, listedAs>>
        /\ UNCHANGED notVerifyProofVars

\* runList: the scan reaches the directory
RunList ==
    LET info == analyzeNFTDirectory(files, proofFile)
    IN  /\ listedAs' = [done |-> TRUE, Status |-> info.Status, HasProof |-> info.HasProof,
                        after |-> lastRun]
        /\ UNCHANGED <<proofFile, lastRun>>
        /\ UNCHANGED notProofVars

\* the outside world writes the image or the metadata of the directory
\* between two commands
ModifyBackup(name, bytes) ==
    /\ files[name] # FileWith(bytes)
    /\ files' = [files EXCEPT ![name] = FileWith(bytes)]
    /\ UNCHANGED <<unreadable, writable, calls>>
    /\ UNCHANGED proofVars
    /\ UNCHANGED notVerifyProofVars

NextList ==
    \/ \E force \in BOOLEAN : RunVerify(force)
    \/ RunList
    \/ \E name \in ReverifyNames, bytes \in FileBytes : ModifyBackup(name, bytes)

(***************************************************************************)
(* The specifications.                                                     *)
(***************************************************************************)
InitVerify ==
    /\ InitDirectory
    /\ InitStore
    /\ InitFetch
    /\ InitMedia
    /\ InitDecode
    /\ InitMint
    /\ InitConcurrent
    /\ InitBackup
    /\ InitListTokens
    /\ InitProof

SpecVerify == InitVerify /\ [][NextVerify]_vars

SpecReverify == InitVerify /\ [][NextReverify]_vars

SpecStore == InitVerify /\ [][NextStore]_vars

SpecFetch == InitVerify /\ [][NextFetch]_vars

SpecMedia == InitVerify /\ [][NextMedia]_vars

SpecAcquire == InitVerify /\ [][NextAcquire]_vars

\* every account of the model is a starting point of the decoder
InitAccounts ==
    /\ InitDirectory /\ InitStore /\ InitFetch /\ InitMedia /\ InitMint /\ InitConcurrent /\ InitBackup /\ InitListTokens /\ InitProof
    /\ account \in Accounts \cup RawAccounts
    /\ decoded = NotDecoded

SpecDecode == InitAccounts /\ [][NextDecode]_vars

\* every mint account of the model is a starting point of the fetcher
InitMints ==
    /\ InitDirectory /\ InitStore /\ InitFetch /\ InitMedia /\ InitDecode /\ InitConcurrent /\ InitBackup /\ InitListTokens /\ InitProof
    /\ mintAccount \in MintAccounts
    /\ fetchedInfo = NotFetched

SpecMint == InitMints /\ [][NextMint]_vars

SpecConcurrent == InitVerify /\ [][NextConcurrent]_vars

\* a run of downloads into an empty media directory
InitRun ==
    /\ InitDirectory /\ InitStore /\ InitFetch /\ InitDecode /\ InitMint /\ InitConcurrent /\ InitBackup /\ InitListTokens /\ InitProof
    /\ InitNaming

SpecNaming == InitRun /\ [][NextNaming]_vars

SpecBackup == InitVerify /\ [][NextBackup]_vars

SpecListTokens == InitVerify /\ [][NextListTokens]_vars

SpecList == InitVerify /\ [][NextList]_vars

(***************************************************************************)
(* Properties of the verification engine.                                  *)
(***************************************************************************)
\* the most recent performVerification call, when the directory has not
\* changed since
LastCall == calls[Len(calls)]

\* the primary media file performVerification finds in a directory
PrimaryMedia(pre) == findImageFile(pre.files, pre.unreadable)

\* the digest text of the primary media file's bytes
MediaDigest(pre) == Sha256Text(pre.files[PrimaryMedia(pre)].bytes)

\* the baseline performVerification reads: the text of hash.txt, and no
\* baseline (the empty string) when hash.txt is missing, unreadable or empty
Baseline(pre) ==
    IF pre.files["hash.txt"].exists /\ "hash.txt" \notin pre.unreadable
    THEN pre.files["hash.txt"].bytes
    ELSE EmptyString

\* computing the media digest or the metadata digest fails with an I/O error
DigestFails(pre) ==
    \/ PrimaryMedia(pre) \in pre.unreadable
    \/ pre.files["metadata.json"].exists /\ "metadata.json" \in pre.unreadable

\* C1 as claimed: with a baseline stored and the primary media altered since
\* (its digest differs from the baseline), every file readable, the next
\* performVerification returns "tampered" and its result carries a recomputed
\* and a stored digest that are unequal, whatever the force-recompute setting.
C1_TamperDetectedWithUnequalDigests ==
    \A i \in 1..Len(calls) :
        LET pre == calls[i].pre
            res == calls[i].result
        IN  (/\ pre.unreadable = {}
             /\ PrimaryMedia(pre) # ""
             /\ Baseline(pre) # EmptyString
             /\ Baseline(pre) # MediaDigest(pre))
            => /\ res.Status = "tampered"
               /\ res.ImageHash # res.StoredHash

\* the status the precedence of C2 gives a directory
ExpectedStatus(pre) ==
    IF PrimaryMedia(pre) = "" THEN "incomplete"
    ELSE IF DigestFails(pre) THEN "error"
    ELSE IF Baseline(pre) = EmptyString \/ Baseline(pre) = MediaDigest(pre) THEN "authentic"
    ELSE "tampered"

C4_AlwaysIdempotent ==
    \A i \in 1..(Len(calls) - 1) :
        (calls[i].pre.unreadable = {} /\ PrimaryMedia(calls[i].pre) # "")
        => /\ calls[i].result.Status = "authentic"
           /\ calls[i + 1].result.Status = "authentic"
           /\ calls[i].result.ImageHash = calls[i + 1].result.ImageHash

\* C4 as amended: two calls in a row on a directory whose primary media and
\* metadata can be read and whose baseline, if one can be read, equals the
\* media digest both return "authentic" with the same digest, which is the
\* digest of the media bytes.
C4_IdempotentWhenAuthentic ==
    \A i \in 1..(Len(calls) - 1) :
        LET pre == calls[i].pre
        IN  (/\ PrimaryMedia(pre) # ""
             /\ ~DigestFails(pre)
             /\ Baseline(pre) \in {EmptyString, MediaDigest(pre)})
            => /\ calls[i].result.Status = "authentic"
               /\ calls[i + 1].result.Status = "authentic"
               /\ calls[i].result.ImageHash = MediaDigest(pre)
               /\ calls[i + 1].result.ImageHash = MediaDigest(pre)

\* C4's case: two calls in a row, the first on a directory without a baseline
C4_Witness ==
    /\ Len(calls) >= 2
    /\ ~calls[1].pre.files["hash.txt"].exists
    /\ calls[1].result.Status = "authentic"
    /\ LastCall.result.Status = "authentic"
    /\ LastCall.pre.files["hash.txt"].exists

(***************************************************************************)
(* Properties of the backup store.                                         *)
(***************************************************************************)
\* the record most recently saved with success under a pair
SavedRecord(p) == saved[p][1]

\* the mints that have a saved, not since deleted, record under an owner
SavedMints(owner) == {m \in Mints : <<owner, m>> \in Pairs /\ saved[<<owner, m>>] # <<>>}

NFTDataPath(p) == Append(buildNFTPath(p[1], p[2]), "nft_data.json")

\* the aggregate file of a pair exists, can be read and holds a JSON document
WellFormed(p) ==
    /\ NFTDataPath(p) \in DOMAIN disk
    /\ disk[NFTDataPath(p)].accessible
    /\ disk[NFTDataPath(p)].bytes # Garbage

\* the aggregate file of a pair exists and is corrupt or unreadable
Damaged(p) == NFTDataPath(p) \in DOMAIN disk /\ ~WellFormed(p)

\* the mints of the records a listing returned, in order
ListedMints(records) == [i \in 1..Len(records) |-> records[i].NFTInfo.MintAddress]

\* a listing holds exactly one record for each mint of the set, each the
\* record last saved for that mint under the owner
ListsExactly(records, owner, mints) ==
    /\ Len(records) = Cardinality(mints)
    /\ {ListedMints(records)[i] : i \in 1..Len(records)} = mints
    /\ \A i \in 1..Len(records) :
            /\ records[i].NFTInfo.Owner = owner
            /\ records[i].NFTInfo = SavedRecord(<<owner, records[i].NFTInfo.MintAddress>>)

\* C5: after SaveNFT(record) succeeds, GetNFT(record.Owner, record.MintAddress)
\* succeeds and returns a stored record whose mint address, owner and metadata
\* name equal the input's, whose checksum is non-empty and whose version is 1.
C5_SaveGetRoundTrip ==
    (ret.op = "SaveNFT" /\ ret.err = "") =>
        LET record == SavedRecord(<<ret.owner, ret.mint>>)
            got == GetNFTOp(disk, record.Owner, record.MintAddress)
        IN  /\ got.err = ""
            /\ got.value[1].NFTInfo.MintAddress = record.MintAddress
            /\ got.value[1].NFTInfo.Owner = record.Owner
            /\ got.value[1].NFTInfo.Metadata.nil = record.Metadata.nil
            /\ got.value[1].NFTInfo.Metadata.Name = record.Metadata.Name
            /\ got.value[1].Checksum # EmptyString
            /\ got.value[1].Version = 1

\* C5's case: a record with metadata was saved and can be read back
C5_Witness ==
    /\ ret.op = "SaveNFT"
    /\ ret.err = ""
    /\ ~SavedRecord(<<ret.owner, ret.mint>>).Metadata.nil
    /\ GetNFTOp(disk, ret.owner, ret.mint).err = ""

\* C6 as claimed: after a SaveNFT for an (owner, mint) succeeds, the per-mint
\* directory reflects only that record: nft_data.json holds it, metadata.json
\* exists only if the record has metadata, and media_manifest.json exists only
\* if the record has at least one media asset.
C6_DirectoryReflectsLastSave ==
    (ret.op = "SaveNFT" /\ ret.err = "") =>
        LET record == SavedRecord(<<ret.owner, ret.mint>>)
            nftDir == buildNFTPath(ret.owner, ret.mint)
        IN  /\ GetNFTOp(disk, ret.owner, ret.mint).value = <<NewStoredNFT(record, now - 1, nftDir)>>
            /\ Append(nftDir, "metadata.json") \in DOMAIN disk => ~record.Metadata.nil
            /\ Append(nftDir, "media_manifest.json") \in DOMAIN disk
                    => Len(record.MediaFiles) > 0

\* C7: the checksum of every stored record that loads is the digest of the
\* NFT data of the most recent successful SaveNFT of its pair, whatever the
\* time of the save, and a step changes the checksum stored for a pair only
\* if it is a SaveNFT of that pair with different NFT data.
C7_ChecksumOfLastSave ==
    [][\A p \in Pairs :
        LET before == GetNFTOp(disk, p[1], p[2])
            after == GetNFTOp(disk', p[1], p[2])
        IN  /\ after.err = ""
                => /\ saved'[p] # <<>>
                   /\ after.value[1].Checksum = calculateChecksum(saved'[p][1])
                   /\ after.value[1].Checksum = calculateChecksum(after.value[1].NFTInfo)
            /\ (/\ before.err = ""
                /\ after.err = ""
                /\ after.value[1].Checksum # before.value[1].Checksum)
                => /\ ret'.op = "SaveNFT"
                   /\ <<ret'.owner, ret'.mint>> = p
                   /\ saved'[p] # saved[p]]_vars

\* C7's case: a pair was saved a second time, and its stored record carries
\* the later time and the digest of its NFT data
C7_Witness ==
    /\ ret.op = "SaveNFT"
    /\ ret.err = ""
    /\ LET got == GetNFTOp(disk, ret.owner, ret.mint)
       IN  /\ got.err = ""
           /\ got.value[1].StoredAt = 1
           /\ got.value[1].Checksum = calculateChecksum(got.value[1].NFTInfo)

\* C8: when no aggregate under the owner is damaged (the store was changed
\* by SaveNFT and DeleteNFT only), ListNFTs(owner) succeeds and returns
\* exactly one record for each mint currently saved under that owner, and no
\* record of another owner.
C8_ListOnePerSavedMint ==
    (/\ ret.op = "ListNFTs"
     /\ \A m \in Mints : <<ret.owner, m>> \in Pairs => ~Damaged(<<ret.owner, m>>))
    => /\ ret.err = ""
       /\ ListsExactly(ret.value, ret.owner, SavedMints(ret.owner))

\* C8's case: a listing after two saves of two distinct mints of the owner
C8_Witness ==
    /\ ret.op = "ListNFTs"
    /\ Cardinality(SavedMints(ret.owner)) = 2
    /\ Len(ret.value) = 2

\* C9: a DeleteNFT of a pair that has a record succeeds and removes every
\* path of the per-mint subtree, so that GetNFT of the pair fails as not found
\* and ListNFTs does not return it, and leaves every other path, and so the
\* record of every other pair, as it was; a DeleteNFT of a pair that has no
\* record returns an error and changes nothing.
C9_DeleteRemovesSubtree ==
    [][ret'.op = "DeleteNFT" =>
        LET p == <<ret'.owner, ret'.mint>>
            nftDir == buildNFTPath(p[1], p[2])
            listed == ListNFTsOp(disk', p[1]).value
        IN  IF saved[p] # <<>>
            THEN /\ ret'.err = ""
                 /\ \A q \in DOMAIN disk' : ~IsPrefix(nftDir, q)
                 /\ \A q \in DOMAIN disk : ~IsPrefix(nftDir, q)
                        => q \in DOMAIN disk' /\ disk'[q] = disk[q]
                 /\ DOMAIN disk' \subseteq DOMAIN disk
                 /\ GetNFTOp(disk', p[1], p[2]).err = "NFT not found"
                 /\ \A i \in 1..Len(listed) : listed[i].NFTInfo.MintAddress # p[2]
                 /\ \A o \in Pairs \ {p} :
                        GetNFTOp(disk', o[1], o[2]) = GetNFTOp(disk, o[1], o[2])
            ELSE /\ ret'.err # ""
                 /\ disk' = disk]_vars

\* C9's case: a record was deleted while another record stayed in the store
C9_Witness ==
    /\ ret.op = "DeleteNFT"
    /\ ret.err = ""
    /\ saved[<<ret.owner, ret.mint>>] = <<>>
    /\ \E p \in Pairs : saved[p] # <<>> /\ GetNFTOp(disk, p[1], p[2]).err = ""

C11_MetadataVerbatim ==
    (fetched.done /\ fetched.err = "") => fetched.written = <<fetched.body>>

\* C12: on a successful DownloadMedia the returned checksum is the SHA-256 of
\* exactly the bytes written to the file, and the returned size is the number
\* of those bytes.
C12_ChecksumAndSizeOfWrittenBytes ==
    (download.done /\ download.err = "") =>
        LET file == download.file[1]
        IN  /\ mediaDir[file.Filename].exists
            /\ file.Checksum = Sha256Hex(mediaDir[file.Filename].bytes)
            /\ file.Size = Len(mediaDir[file.Filename].bytes)

\* C12's case: a download of a body of unknown length succeeded and wrote bytes
C12_Witness ==
    /\ download.done
    /\ download.err = ""
    /\ download.contentLength = UnknownLength
    /\ Len(mediaDir[download.filename].bytes) > 0

\* C13: a DownloadMedia whose response declares a Content-Length greater than
\* the maximum file size fails before the destination file is created: the
\* call creates nothing and writes no byte, and the media directory is as it
\* was.
C13_RejectedBeforeCreate ==
    [][(maxFileSize' = maxFileSize /\ download'.done
            /\ download'.contentLength > maxFileSize)
        => /\ download'.err = "file too large"
           /\ ~download'.created
           /\ download'.file = <<>>
           /\ mediaDir' = mediaDir]_vars

\* C13's case: a download was refused for its declared length and there is no
\* file at its destination
C13_Witness ==
    /\ download.done
    /\ download.err = "file too large"
    /\ download.contentLength > maxFileSize
    /\ ~mediaDir[download.filename].exists

C15_EveryURLAttempted ==
    (acquired.done /\ ~acquired.metadata.nil) =>
        LET md == acquired.metadata
            fileURIs == [i \in 1..Len(md.Properties.Files) |-> md.Properties.Files[i].URI]
            expected == SelectSeq(<<md.Image, md.AnimationURL>> \o fileURIs,
                                  LAMBDA u : u # "")
            Succeeds(i) ==
                LET resp == acquired.resps[i]
                IN  /\ expected[i] \notin UnparsableURLs
                    /\ ~resp.failed
                    /\ resp.status = StatusOK
                    /\ resp.delivered = Len(resp.body)
                    /\ IF resp.declared THEN Len(resp.body) <= maxFileSize
                       ELSE Len(resp.body) < maxFileSize
            successes == SelectSeq([i \in 1..Len(expected) |-> i], Succeeds)
        IN  /\ acquired.err = ""
            /\ acquired.attempts = expected
            /\ Len(acquired.outcomes) = Len(expected)
            /\ \A i \in 1..Len(expected) : (acquired.outcomes[i] = "") = Succeeds(i)
            /\ Len(acquired.MediaFiles) = Len(successes)
            /\ \A k \in 1..Len(successes) :
                    acquired.MediaFiles[k].URL = expected[successes[k]]

\* C15's case: the first of three downloads failed and a later one succeeded
C15_Witness ==
    /\ acquired.done
    /\ Len(acquired.attempts) = 3
    /\ acquired.outcomes[1] # ""
    /\ acquired.outcomes[3] = ""
    /\ Len(acquired.MediaFiles) >= 1

\* the allow-list of schemes: the URI begins with http://, https://, ar://
\* or ipfs://
AllowedScheme(uri) ==
    LET separator == <<58, 47, 47>>
        schemes == {PrefixHttp \o separator, PrefixHttp \o <<115>> \o separator,
                    PrefixAr \o separator, PrefixIpfs \o separator}
    IN  \E scheme \in schemes :
            Len(uri) >= Len(scheme) /\ SubSeq(uri, 1, Len(scheme)) = scheme

\* an account that conforms to the fixed layout: the key, the two public
\* keys, a name and a symbol of at most 200 bytes and a URI of at most 1000
\* bytes with an allowed scheme, padded with NUL bytes if at all
Conforming(acct) ==
    /\ acct.cut = "whole"
    /\ acct.key = MetadataAccountKey
    /\ Len(acct.name) <= 200
    /\ Len(acct.symbol) <= 200
    /\ Len(acct.uri.text \o acct.uri.padding) <= 1000
    /\ AllowedScheme(acct.uri.text)
    /\ \A i \in 1..Len(acct.uri.padding) : acct.uri.padding[i] = 0

\* C16 as claimed: every buffer that conforms to the fixed layout decodes
\* successfully, and the decoded URI is the encoded one with its trailing NUL
\* padding stripped.
C16_ConformingDecodes ==
    (decoded.done /\ Conforming(account)) =>
        /\ ~decoded.panic
        /\ decoded.err = <<>>
        /\ decoded.uri = account.uri.text

\* the error the layout of an account asks for, the fields taken in the order
\* name, symbol, URI: <<>> when every prefix is within its cap and every
\* field within the data
LayoutError(acct) ==
    LET size == Len(acct.data)
        nameAt == 65
        symbolAt == nameAt + 4 + Len(acct.name)
        uriAt == symbolAt + 4 + Len(acct.symbol)
        uriLength == Len(acct.uri.text \o acct.uri.padding)
    IN  IF acct.key # 4 THEN <<"not a valid metadata account">>
        ELSE IF size < nameAt + 4 THEN <<"data too short for", "name", "length">>
        ELSE IF Len(acct.name) > 200 THEN <<"length too large", "name">>
        ELSE IF size < symbolAt THEN <<"data too short for", "name">>
        ELSE IF size < symbolAt + 4 THEN <<"data too short for", "symbol", "length">>
        ELSE IF Len(acct.symbol) > 200 THEN <<"length too large", "symbol">>
        ELSE IF size < uriAt THEN <<"data too short for", "symbol">>
        ELSE IF size < uriAt + 4 THEN <<"data too short for", "URI", "length">>
        ELSE IF uriLength > 1000 THEN <<"length too large", "URI">>
        ELSE IF size < uriAt + 4 + uriLength THEN <<"data too short for", "URI">>
        ELSE <<>>

\* C17: every decoding failure is attributable. An account of at least the
\* least size whose first byte is not the key fails as not a metadata
\* account; a length prefix above its cap (200, 200, 1000; the cap itself is
\* accepted) fails as too large, naming the field; data that ends before a
\* prefix or before the bytes it promises fails as too short, naming the
\* field; the fields are checked in the order name, symbol, URI and the first
\* violation is the one reported.
C17_FailuresAttributable ==
    (decoded.done /\ account.cut # "raw" /\ Len(account.data) >= MinAccountSize) =>
        IF LayoutError(account) # <<>>
        THEN decoded.err = LayoutError(account)
        ELSE decoded.err \in {<<>>, <<"URI too short">>, <<"URI format not recognized">>}

\* C17's case: a name of exactly the cap was accepted and the symbol after it
\* was refused as too long
C17_Witness ==
    /\ decoded.done
    /\ Len(account.name) = 200
    /\ Len(account.data) > 65 + 4 + 200 + 4
    /\ decoded.err = <<"length too large", "symbol">>

\* C18: for every buffer decoding ends with a URI or an error: it never reads
\* outside the buffer, never succeeds with an empty URI, returns no URI with
\* an error, and fails as too short on every buffer below the least size.
C18_NoPanicNoEmptyURI ==
    decoded.done =>
        /\ ~decoded.panic
        /\ decoded.err = <<>> => Len(decoded.uri) > 0
        /\ decoded.err # <<>> => decoded.uri = <<>>
        /\ Len(account.data) < MinAccountSize
                => decoded.err = <<"metadata account data too short">>

\* C18's case: an account cut inside its URI field was refused with an error
C18_Witness ==
    /\ decoded.done
    /\ account.cut = "URI"
    /\ Len(account.data) >= MinAccountSize
    /\ decoded.err = <<"data too short for", "URI">>

\* C19 as claimed: a trimmed URI is accepted only if its scheme is on the
\* allow-list (http://, https://, ar://, ipfs://); a URI that merely begins
\* with the letters ar, http or ipfs fails.
C19_OnlyAllowedSchemes ==
    (decoded.done /\ decoded.err = <<>>) => AllowedScheme(decoded.uri)

\* C20 as claimed: given a response of status 200, parsing the metadata fails
\* only if the body is not valid JSON.
C20_FailsOnlyOnInvalidJSON ==
    (fetched.done /\ fetched.status = StatusOK /\ fetched.err # "") => fetched.body = Garbage

\* what the tolerant parsing is to extract from a JSON object: each string
\* key on its own ("" when the value is no string), a creator's verified flag
\* from a boolean, a number or the strings "true" and "1"
ExtractedFrom(body) ==
    LET text(key) == IF key \in DOMAIN body.v /\ body.v[key].t = "string"
                     THEN body.v[key].v ELSE ""
        flag(creator) ==
            /\ "verified" \in DOMAIN creator.v
            /\ \/ creator.v["verified"] = JBool(TRUE)
               \/ creator.v["verified"].t = "number" /\ creator.v["verified"].v # 0
               \/ creator.v["verified"] \in {JString("true"), JString("1")}
        creators == IF "properties" \in DOMAIN body.v
                    THEN body.v["properties"].v["creators"].v ELSE <<>>
    IN  [Name |-> text("name"), Symbol |-> text("symbol"), Image |-> text("image"),
         Verified |-> [i \in 1..Len(creators) |-> flag(creators[i])]]

\* C20, amended: given a response of status 200, parsing the metadata fails
\* exactly if the body is neither a JSON object nor null (invalid JSON, or a
\* top-level array, string, number or boolean); when the standard parsing of
\* an object fails, the tolerant parsing extracts each recognized key on its
\* own, reads a creator's verified flag from a boolean, a number or the
\* strings "true" and "1", and leaves out every key it cannot coerce.
C20_FailsUnlessObjectOrNull ==
    (fetched.done /\ fetched.status = StatusOK) =>
        /\ (fetched.err # "") = (fetched.body.t \notin {"object", "null"})
        /\ (fetched.body.t = "object" /\ ~fetched.strict) =>
                LET want == ExtractedFrom(fetched.body)
                    got == fetched.metadata
                IN  /\ ~got.nil
                    /\ got.Name = want.Name
                    /\ got.Symbol = want.Symbol
                    /\ got.Image = want.Image
                    /\ Len(got.Properties.Creators) = Len(want.Verified)
                    /\ \A i \in 1..Len(want.Verified) :
                            got.Properties.Creators[i].Verified = want.Verified[i]

\* C20's case: the standard parsing failed on a name that is a number, and
\* the tolerant parsing kept the symbol and read verified from the string "1"
C20_Witness ==
    /\ fetched.done
    /\ fetched.err = ""
    /\ ~fetched.strict
    /\ fetched.body.t = "object"
    /\ "name" \in DOMAIN fetched.body.v
    /\ fetched.body.v["name"] = JNumber(7)
    /\ fetched.metadata.Name = ""
    /\ fetched.metadata.Symbol = "Cool Cat"
    /\ Len(fetched.metadata.Properties.Creators) = 1
    /\ fetched.metadata.Properties.Creators[1].Verified
    /\ fetched.body.v["properties"].v["creators"].v[1].v["verified"] = JString("1")

\* C21 as claimed: every record FetchNFTInfo or FetchNFTInfoDemo returns
\* without error has decimals 0 and supply 1, and is of a mint account that
\* holds decimals 0 and supply 1; any other mint account, or one too short to
\* read them from, yields an error.
C21_OnlyNonFungibleMints ==
    (fetchedInfo.done /\ fetchedInfo.err = "") =>
        /\ fetchedInfo.Decimals = 0
        /\ fetchedInfo.Supply = 1
        /\ Len(mintAccount.data) > DecimalsOffset
        /\ mintAccount.decimals = 0
        /\ mintAccount.supply = 1

\* C22: concurrent SaveNFT calls are not serialized and the last writer wins
\* per file: every file holds what the call that wrote it last wrote,
\* whatever call wrote the other files; C22_Witness is the interleaving of
\* two calls for the same (owner, mint) that ends with nft_data.json of one
\* record and metadata.json of the other.
C22_LastWriterWinsPerFile ==
    \A path \in DOMAIN lastWriter :
        /\ path \in DOMAIN tree
        /\ tree[path] = FileNode(CallDocument(callers[lastWriter[path]], path[Len(path)]))

\* C22's case: two overlapping calls for the same owner and mint with
\* different metadata have both returned nil; nft_data.json is the one
\* caller's record and metadata.json the other caller's metadata
C22_Witness ==
    \E a, b \in Callers :
        /\ a # b
        /\ callers[a].pc = "done" /\ callers[b].pc = "done"
        /\ callers[a].err = "" /\ callers[b].err = ""
        /\ CallDir(callers[a]) = CallDir(callers[b])
        /\ ~callers[a].nftInfo.Metadata.nil /\ ~callers[b].nftInfo.Metadata.nil
        /\ callers[a].nftInfo.Metadata # callers[b].nftInfo.Metadata
        /\ callers[a].overlapped /\ callers[b].overlapped
        /\ tree[Append(CallDir(callers[a]), "nft_data.json")]
                = FileNode(CallDocument(callers[a], "nft_data.json"))
        /\ tree[Append(CallDir(callers[a]), "metadata.json")]
                = FileNode(CallDocument(callers[b], "metadata.json"))

\* C23: for two SaveNFT calls on different mints, every interleaving of
\* their steps ends in the store state that running them one after the other
\* (in either order, with the times they read) ends in; the files below a
\* per-mint directory are those of the call for that mint; and once a call
\* has returned, GetNFT returns its record whatever the other call does.
C23_DifferentMintsIndependent ==
    \A a, b \in Callers :
        (/\ a # b
         /\ callers[a].pc = "done"
         /\ callers[b].pc # "idle"
         /\ callers[a].nftInfo.MintAddress # callers[b].nftInfo.MintAddress) =>
            LET first == callers[a]
                second == callers[b]
                alone == SaveNFTOp((<<>> :> DirNode), first.time, first.nftInfo).disk
                both == SaveNFTOp(alone, second.time, second.nftInfo).disk
            IN  /\ first.err = ""
                /\ GetNFTOp(tree, first.nftInfo.Owner, first.nftInfo.MintAddress).value
                        = <<NewStoredNFT(first.nftInfo, first.time, CallDir(first))>>
                /\ \A path \in DOMAIN tree :
                        IsPrefix(CallDir(first), path) => path \in DOMAIN alone
                                                          /\ tree[path] = alone[path]
                /\ second.pc = "done" => tree = both

\* C23's case: two calls on different mints of one owner took their steps in
\* between each other's and have both returned
C23_Witness ==
    \E a, b \in Callers :
        /\ a # b
        /\ callers[a].pc = "done" /\ callers[b].pc = "done"
        /\ callers[a].overlapped /\ callers[b].overlapped
        /\ callers[a].nftInfo.Owner = callers[b].nftInfo.Owner
        /\ callers[a].nftInfo.MintAddress # callers[b].nftInfo.MintAddress
        /\ ~callers[a].nftInfo.Metadata.nil /\ Len(callers[b].nftInfo.MediaFiles) > 0

\* C24 as claimed: the destination file name of a download is the last
\* segment of the URL path; when the URL path is empty, the name made from
\* the current time is distinct from the name of every earlier download of
\* the run, so the download overwrites no file that an earlier one wrote.
C24_FallbackNamesDistinct ==
    [][(download' # download /\ download'.done /\ download'.err = "") =>
            IF download'.url = "https://cdn.io/a.png"
            THEN download'.filename = "a.png"
            ELSE ~mediaDir[download'.filename].exists]_vars

\* C25 as claimed: for a record saved by SaveNFT whose media was downloaded
\* into its media directory, performVerification on the directory of the
\* record finds a primary media file and returns a status other than
\* incomplete.
C25_VerifyFindsBackedUpMedia ==
    (verdict.done /\ Len(backedUp.nftInfo.MediaFiles) > 0) =>
        /\ verdict.result.HasImage
        /\ verdict.result.Status # "incomplete"

C27_EntriesMatchTheirFiles ==
    acquired.done =>
        \A i \in 1..Len(acquired.MediaFiles) :
            LET entry == acquired.MediaFiles[i]
                local == mediaDir[entry.Filename]
            IN  /\ local.exists
                /\ Sha256Hex(local.bytes) = entry.Checksum
                /\ Len(local.bytes) = entry.Size
                /\ \A j \in 1..Len(acquired.MediaFiles) :
                        j # i => acquired.MediaFiles[j].Filename # entry.Filename

\* C28 as claimed: when metadata.json is modified between two runs of
\* performVerification on a directory while the image is the same, the second
\* run does not return "authentic".
C28_MetadataChangeDetected ==
    \A i \in 1..(Len(calls) - 1) :
        LET first == calls[i].pre.files
            second == calls[i + 1].pre.files
        IN  (/\ first["image.png"].exists
             /\ second["image.png"] = first["image.png"]
             /\ first["metadata.json"].exists
             /\ second["metadata.json"].exists
             /\ second["metadata.json"] # first["metadata.json"])
            => calls[i + 1].result.Status # "authentic"

\* C29 as claimed: a FetchNFTInfo error for one mint does not end the
\* list-tokens command: the command does not crash in its loop, in the pretty
\* or in the default mode, and when it has returned from the loop every token
\* account of the wallet has been processed.
C29_FetchErrorDoesNotAbort ==
    /\ listing.pc # "panic"
    /\ (listing.pc = "returned" /\ listing.err = "") =>
            listing.next = Len(listing.tokenAccounts) + 1

\* C30 as claimed: whenever the list command shows the status "verified" for
\* an NFT directory, the verify run that last preceded the listing returned
\* "authentic".
C30_VerifiedMeansAuthentic ==
    (listedAs.done /\ listedAs.Status = "verified") =>
        /\ listedAs.after.done
        /\ listedAs.after.Status = "authentic"

====
